---- MODULE Spec2Model ----
(***************************************************************************)
(* Model of the Reality Defender Rust SDK client (src/src/client.rs,       *)
(* src/src/http.rs, src/src/models.rs, src/src/error.rs).                  *)
(*                                                                         *)
(* Among the state machines of this module:                                *)
(*   SpecNorm  - Client::normalize_scores applied to a raw payload         *)
(*   SpecPoll  - one call of Client::get_result or Client::get_results     *)
(*               against a scripted upstream                               *)
(*   SpecBatch - one call of Client::process_batch                         *)
(*   SpecPure  - Client::normalize_scores called while a call of           *)
(*               Client::get_result is under way                           *)
(*                                                                         *)
(* Numbers: an f64 score v is represented by the integer v * ScoreUnit     *)
(* (fixed point, four decimals), so 0.75 is 7500 and 75.0 is 750000.       *)
(* Every raw score of the model is a multiple of 100, which makes the      *)
(* division by 100.0 of the code exact.                                    *)
(***************************************************************************)
EXTENDS Integers, Sequences, FiniteSets, TLC

(***************************************************************************)
(* Option<T> and Result<T, E>                                              *)
(***************************************************************************)
None == << >>

Some(v) == << v >>

is_some(o) == Len(o) = 1

unwrap(o) == o[1]

unwrap_or(o, d) == IF is_some(o) THEN o[1] ELSE d

Ok(v) == [ok |-> TRUE, val |-> v]

Err(e) == [ok |-> FALSE, err |-> e]

(***************************************************************************)
(* Bounds of the model                                                     *)
(***************************************************************************)
MaxModels == 2

\* the fixed-point representation of 1.0: four decimals
ScoreUnit == 100 * 100

(***************************************************************************)
(* Raw payloads (models.rs)                                                *)
(***************************************************************************)
\* serde_json::Value as far as the code looks at it: a number or not.
JsonNumber(v) == [type |-> "number", num |-> v]

JsonString(s) == [type |-> "string", str |-> s]

\* serde_json::Value::as_f64
as_f64(json) == IF json.type = "number" THEN Some(json.num) ELSE None

\* serde_json::Map::get
map_get(m, key) == IF key \in DOMAIN m THEN Some(m[key]) ELSE None

EmptyMap == [k \in {} |-> JsonNumber(0)]

\* FloatOrObject
Float(v) == [variant |-> "Float", val |-> v]

Object == [variant |-> "Object", reason |-> "relevance", decision |-> "NOT_EVALUATED"]

\* DetectionModel
DetectionModel(n, s, pn, npn, fs) ==
    [name |-> n, status |-> s, prediction_number |-> pn,
     normalized_prediction_number |-> npn, final_score |-> fs]

\* ResultsSummary
ResultsSummary(s, md) == [status |-> s, metadata |-> md]

\* AnalysisResult
AnalysisResult(id, s, fs, ms, rs) ==
    [request_id |-> id, status |-> s, final_score |-> fs, models |-> ms,
     results_summary |-> rs]

\* DetectionModelResult
DetectionModelResult(n, s, sc) == [name |-> n, status |-> s, score |-> sc]

\* DetectionResult
DetectionResult(id, s, sc, ms) ==
    [request_id |-> id, status |-> s, score |-> sc, models |-> ms]

(***************************************************************************)
(* Client::normalize_scores                                                *)
(***************************************************************************)
\* f64 division by 100.0 in fixed point
Div100(x) == x \div 100

\* a status mapping that passes every status through
MapStatus_identity(s) == s

\* "FAKE" is replaced by "MANIPULATED" (overall status and model status)
MapStatus(s) == IF s = "FAKE" THEN "MANIPULATED" ELSE s

\* result.final_score.map(|final_score| final_score / 100.0)
TopLevelScore(result) ==
    IF is_some(result.final_score)
    THEN Some(Div100(unwrap(result.final_score)))
    ELSE None

\* the numeric finalScore of resultsSummary.metadata, if there is one
MetadataFinalScore(result) ==
    IF ~is_some(result.results_summary) THEN None
    ELSE LET metadata == unwrap(result.results_summary).metadata IN
         IF ~is_some(metadata) THEN None
         ELSE LET final_score == map_get(unwrap(metadata), "finalScore") IN
              IF ~is_some(final_score) THEN None
              ELSE as_f64(unwrap(final_score))

\* detection_result.score after lines 82 and 87-95: the metadata score, when
\* numeric, overwrites the score taken from the top-level final score
OverallScore(result) ==
    LET score_value == MetadataFinalScore(result) IN
    IF is_some(score_value)
    THEN Some(Div100(unwrap(score_value)))
    ELSE TopLevelScore(result)

\* a model score that falls back to normalizedPredictionNumber
ModelScore_with_fallback(model) ==
    IF is_some(model.prediction_number)
       /\ unwrap(model.prediction_number).variant = "Float"
    THEN Some(unwrap(model.prediction_number).val)
    ELSE model.normalized_prediction_number

\* score of one model: the plain-number predictionNumber as it is, else None
ModelScore(model) ==
    IF is_some(model.prediction_number)
       /\ unwrap(model.prediction_number).variant = "Float"
    THEN Some(unwrap(model.prediction_number).val)
    ELSE None

\* a filter that retains every model
FilterModels_keep_all(models) == models

\* .filter(|model| model.status != "NOT_APPLICABLE")
RECURSIVE FilterModels(_)
FilterModels(models) ==
    IF models = << >> THEN << >>
    ELSE IF Head(models).status /= "NOT_APPLICABLE"
         THEN << Head(models) >> \o FilterModels(Tail(models))
         ELSE FilterModels(Tail(models))

\* .map(|model| DetectionModelResult {..})
NormalizeModel(model) ==
    DetectionModelResult(model.name, MapStatus(model.status), ModelScore(model))

normalize_scores(result) ==
    LET kept == FilterModels(result.models) IN
    DetectionResult(result.request_id,
                    MapStatus(result.status),
                    OverallScore(result),
                    [i \in 1..Len(kept) |-> NormalizeModel(kept[i])])

(***************************************************************************)
(* Inputs of SpecNorm: bounded raw payloads                                *)
(***************************************************************************)
RawStatuses == {"ANALYZING", "COMPLETED", "FAKE"}

\* the score encodings of one model: plain number (two scales), structured
\* object, absent with a fallback field, absent with nothing
ModelForms ==
    { [n |-> "plain_low",  pn |-> Some(Float(2700)),   npn |-> Some(270000), fs |-> None],
      [n |-> "plain_high", pn |-> Some(Float(925000)), npn |-> None,         fs |-> None],
      [n |-> "object",     pn |-> Some(Object),        npn |-> Some(800000), fs |-> None],
      [n |-> "normalized", pn |-> None,                npn |-> Some(800000), fs |-> None],
      [n |-> "final",      pn |-> None,                npn |-> None,         fs |-> Some(700000)],
      [n |-> "absent",     pn |-> None,                npn |-> None,         fs |-> None] }

\* every encoding with a retained status, and some with the statuses that
\* are rewritten ("FAKE") or dropped ("NOT_APPLICABLE")
RawModels ==
    { DetectionModel(f.n, "COMPLETED", f.pn, f.npn, f.fs) : f \in ModelForms }
    \cup { DetectionModel(f.n, "FAKE", f.pn, f.npn, f.fs) :
             f \in { g \in ModelForms : g.n \in {"plain_high", "object"} } }
    \cup { DetectionModel(f.n, "NOT_APPLICABLE", f.pn, f.npn, f.fs) :
             f \in { g \in ModelForms : g.n \in {"plain_low", "object"} } }

RawModelLists == UNION { [1..n -> RawModels] : n \in 0..MaxModels }

RawSummaries ==
    { None,
      Some(ResultsSummary("COMPLETED", None)),
      Some(ResultsSummary("FAKE", Some(EmptyMap))),
      Some(ResultsSummary("COMPLETED", Some([k \in {"finalScore"} |-> JsonString("n/a")]))),
      Some(ResultsSummary("COMPLETED", Some([k \in {"finalScore"} |-> JsonNumber(850000)]))),
      Some(ResultsSummary("COMPLETED", Some([k \in {"finalScore"} |-> JsonNumber(5000)]))) }

RawFinalScores == {None, Some(7500), Some(750000), Some(1000000)}

RawPayloads ==
    { AnalysisResult("r1", s, fs, ms, rs) :
        s \in RawStatuses, fs \in RawFinalScores, ms \in RawModelLists, rs \in RawSummaries }

(***************************************************************************)
(* Errors (error.rs) and HTTP responses (http.rs)                          *)
(***************************************************************************)
\* an Error value: its enum variant and its message
Error(kind, msg) == [kind |-> kind, msg |-> msg]

\* an upstream response: the HTTP status and what the body parses as
\*   body.parses: "AnalysisResult" | "DetectionResultList" | "json" | "text",
\*                or "unreadable" when reading the body fails
\*   body.error : Option<String>, the "error" field of a JSON body
\*   body.text  : the text of a body that is not JSON
HttpResponse(status, body) == [status |-> status, body |-> body]

BodyOf(type, value) == [parses |-> type, value |-> value, error |-> None]

JsonErrorBody(msg) == [parses |-> "json", value |-> None, error |-> Some(msg)]

JsonPlainBody == [parses |-> "json", value |-> None, error |-> None]

\* a body that is not JSON, with its text
RawBody(text) == [parses |-> "text", value |-> None, error |-> None, text |-> text]

TextBody == RawBody("oops")

\* a body whose read fails with a reqwest::Error (the connection breaks
\* after the status line and the headers)
UnreadableBody == [parses |-> "unreadable", value |-> None, error |-> None]

\* the request could not be executed at all (reqwest::Error)
NetworkFailure == [status |-> 0, body |-> TextBody]

\* the reason phrases of the registered status codes (those of http 1.4,
\* the first to register 103)
ReasonPhrase(status) ==
    CASE status = 100 -> "Continue"
      [] status = 101 -> "Switching Protocols"
      [] status = 102 -> "Processing"
      [] status = 103 -> "Early Hints"
      [] status = 200 -> "OK"
      [] status = 201 -> "Created"
      [] status = 202 -> "Accepted"
      [] status = 203 -> "Non Authoritative Information"
      [] status = 204 -> "No Content"
      [] status = 205 -> "Reset Content"
      [] status = 206 -> "Partial Content"
      [] status = 207 -> "Multi-Status"
      [] status = 208 -> "Already Reported"
      [] status = 226 -> "IM Used"
      [] status = 300 -> "Multiple Choices"
      [] status = 301 -> "Moved Permanently"
      [] status = 302 -> "Found"
      [] status = 303 -> "See Other"
      [] status = 304 -> "Not Modified"
      [] status = 305 -> "Use Proxy"
      [] status = 307 -> "Temporary Redirect"
      [] status = 308 -> "Permanent Redirect"
      [] status = 400 -> "Bad Request"
      [] status = 401 -> "Unauthorized"
      [] status = 402 -> "Payment Required"
      [] status = 403 -> "Forbidden"
      [] status = 404 -> "Not Found"
      [] status = 405 -> "Method Not Allowed"
      [] status = 406 -> "Not Acceptable"
      [] status = 407 -> "Proxy Authentication Required"
      [] status = 408 -> "Request Timeout"
      [] status = 409 -> "Conflict"
      [] status = 410 -> "Gone"
      [] status = 411 -> "Length Required"
      [] status = 412 -> "Precondition Failed"
      [] status = 413 -> "Payload Too Large"
      [] status = 414 -> "URI Too Long"
      [] status = 415 -> "Unsupported Media Type"
      [] status = 416 -> "Range Not Satisfiable"
      [] status = 417 -> "Expectation Failed"
      [] status = 418 -> "I'm a teapot"
      [] status = 421 -> "Misdirected Request"
      [] status = 422 -> "Unprocessable Entity"
      [] status = 423 -> "Locked"
      [] status = 424 -> "Failed Dependency"
      [] status = 425 -> "Too Early"
      [] status = 426 -> "Upgrade Required"
      [] status = 428 -> "Precondition Required"
      [] status = 429 -> "Too Many Requests"
      [] status = 431 -> "Request Header Fields Too Large"
      [] status = 451 -> "Unavailable For Legal Reasons"
      [] status = 500 -> "Internal Server Error"
      [] status = 501 -> "Not Implemented"
      [] status = 502 -> "Bad Gateway"
      [] status = 503 -> "Service Unavailable"
      [] status = 504 -> "Gateway Timeout"
      [] status = 505 -> "HTTP Version Not Supported"
      [] status = 506 -> "Variant Also Negotiates"
      [] status = 507 -> "Insufficient Storage"
      [] status = 508 -> "Loop Detected"
      [] status = 510 -> "Not Extended"
      [] status = 511 -> "Network Authentication Required"

\* StatusCode::canonical_reason: the reason phrase of the registered status
\* codes, none for any other code
canonical_reason(status) ==
    IF status \in {100, 101, 102, 103, 200, 201, 202, 203, 204, 205, 206, 207, 208, 226, 300, 301, 302, 303, 304, 305, 307,
                  308, 400, 401, 402, 403, 404, 405, 406, 407, 408, 409, 410, 411, 412, 413, 414, 415, 416, 417, 418,
                  421, 422, 423, 424, 425, 426, 428, 429, 431, 451, 500, 501, 502, 503, 504, 505, 506, 507, 508, 510, 511}
    THEN Some(ReasonPhrase(status))
    ELSE None

\* Display of a StatusCode: the number and its canonical reason phrase
StatusDisplay(status) ==
    << status, " ", unwrap_or(canonical_reason(status), "<unknown status code>") >>

\* HttpClient::handle_response::<T>: the body is read (a failure of the read
\* is a request error), then the status decides
handle_response(response, T) ==
    LET status == response.status
        body == response.body
    IN  CASE body = UnreadableBody -> Err(Error("RequestError", << >>))
          [] status \in {200, 201} ->
               IF body.parses = T THEN Ok(body.value)
               ELSE Err(Error("JsonError", << "parse" >>))
          [] status = 401 -> Err(Error("Unauthorized", << >>))
          [] status = 404 -> Err(Error("NotFound", << "Resource not found" >>))
          [] status = 500 -> Err(Error("ServerError", << "Server error" >>))
          [] status = 403 -> Err(Error("Unauthorized", << >>))
          [] OTHER ->
               IF body.parses /= "text" /\ is_some(body.error)
               THEN Err(Error("UnknownError", << unwrap(body.error) >>))
               ELSE Err(Error("UnknownError",
                              << "Unknown error (HTTP ", StatusDisplay(status), ")" >>))

\* HttpClient::get::<T>: execute the request, then handle the response
http_get(response, T) ==
    IF response = NetworkFailure
    THEN Err(Error("RequestError", << >>))
    ELSE handle_response(response, T)

(***************************************************************************)
(* Polling: get_result, get_results                                        *)
(***************************************************************************)
\* GetResultOptions / GetResultsOptions (the fields the polling code reads)
PollOptions(ma, pi, pn) == [max_attempts |-> ma, polling_interval |-> pi, page_number |-> pn]

\* options.unwrap_or_default()
unwrap_or_default(options) ==
    IF is_some(options) THEN unwrap(options) ELSE PollOptions(None, None, None)

\* mutant of should_wait: the polling interval is not looked at
should_wait_any_interval(o) == unwrap_or(o.max_attempts, 0) > 0

\* opts.max_attempts.unwrap_or(0) > 0 && opts.polling_interval.unwrap_or(0) > 0
should_wait(o) ==
    unwrap_or(o.max_attempts, 0) > 0 /\ unwrap_or(o.polling_interval, 0) > 0

\* mutant of InRange: the loop stops one iteration early
InRange_short(i, n) == i + 1 < n

\* mutant of InRange: the loop runs one iteration more
InRange_long(i, n) == i <= n

\* for _ in 0..max_attempts: is there an iteration number i
InRange(i, n) == i < n

\* mutant of IsAnalyzing: an upstream "ERROR" status is polled again
IsAnalyzing_or_error(result) == result.status \in {"ANALYZING", "ERROR"}

\* the match arm "ANALYZING" of wait_for_result
IsAnalyzing(result) == result.status = "ANALYZING"

\* a page test that needs every item to be in progress
still_analyzing_all(result) ==
    \A i \in 1..Len(result.items) : result.items[i].status = "ANALYZING"

\* result.items.iter().any(|item| item.status == "ANALYZING")
still_analyzing(result) ==
    \E i \in 1..Len(result.items) : result.items[i].status = "ANALYZING"

\* DetectionResultList
DetectionResultList(ti, tp, cp, cpic, items) ==
    [total_items |-> ti, total_pages |-> tp, current_page |-> cp,
     current_page_items_count |-> cpic, items |-> items]

\* a formatting that renumbers the pages from one
format_results_list_one_based(raw_result) ==
    [total_items |-> raw_result.total_items,
     total_pages |-> raw_result.total_pages,
     current_page |-> raw_result.current_page + 1,
     current_page_items_count |-> raw_result.current_page_items_count,
     items |-> [i \in 1..Len(raw_result.items) |-> normalize_scores(raw_result.items[i])]]

\* Client::format_results_list
format_results_list(raw_result) ==
    [total_items |-> raw_result.total_items,
     total_pages |-> raw_result.total_pages,
     current_page |-> raw_result.current_page,
     current_page_items_count |-> raw_result.current_page_items_count,
     items |-> [i \in 1..Len(raw_result.items) |-> normalize_scores(raw_result.items[i])]]

\* a fetch that maps the scores and the models and hands the status of the
\* payload on as it came
fetch_result_raw_status(response) ==
    LET result == http_get(response, "AnalysisResult") IN
    IF result.ok
    THEN Ok([normalize_scores(result.val) EXCEPT !.status = result.val.status])
    ELSE result

\* Client::fetch_result, given the response to its GET
fetch_result(response) ==
    LET result == http_get(response, "AnalysisResult") IN
    IF result.ok THEN Ok(normalize_scores(result.val)) ELSE result

\* Client::fetch_results, given the response to its GET
fetch_results(response) ==
    LET raw_result == http_get(response, "DetectionResultList") IN
    IF raw_result.ok THEN Ok(format_results_list(raw_result.val)) ELSE raw_result

\* the endpoint of a fetch: MEDIA_RESULT/<request id> or ALL_MEDIA_RESULTS/<page>
MEDIA_RESULT == "/api/media/users"

\* (the constant is used by client.rs:253; its value is not part of the sources)
ALL_MEDIA_RESULTS == "ALL_MEDIA_RESULTS"

\* the longest a request takes, in ms
MaxRequestMs == 600

\* the resolution at which the time of the requests is told apart, in ms
ClockStepMs == 200

\* the time the n requests of a poll have taken together, in ms: anything
\* from no time to MaxRequestMs each
RequestTimes(n) == { k * ClockStepMs : k \in 0..((n * MaxRequestMs) \div ClockStepMs) }

\* Instant::now() - start_time, in whole seconds: the clock has advanced by
\* the time slept and by the time the requests took
ElapsedSecs(n_sleeps, polling_interval, request_time) ==
    (n_sleeps * polling_interval + request_time) \div 1000

\* the error after the loop of wait_for_result / wait_for_results
TimedOut(what, secs) ==
    Error("UnknownError", << "Timed out waiting for " , what, " after ", secs, " seconds" >>)

(***************************************************************************)
(* Inputs of SpecPoll: the upstream and the options                        *)
(***************************************************************************)
MaxAttempts == 3

MaxK == 3

PollingIntervals == {None, Some(0), Some(1000)}

AttemptBudgets == {None} \cup { Some(n) : n \in 0..MaxAttempts }

\* payloads of GET MEDIA_RESULT/<id>
Payload(id, status, final_score) == AnalysisResult(id, status, final_score, << >>, None)

\* pages of GET ALL_MEDIA_RESULTS/<page>
Page(items) == DetectionResultList(7, 4, 1, Len(items), items)

\* responses that keep a poll going
BusyResponses(c, id) ==
    IF c = "get_result"
    THEN { HttpResponse(200, BodyOf("AnalysisResult", Payload(id, "ANALYZING", None))) }
    ELSE { HttpResponse(200, BodyOf("DetectionResultList",
                Page(<< Payload("r1", "COMPLETED", Some(750000)), Payload("r2", "ANALYZING", None) >>))),
           HttpResponse(200, BodyOf("DetectionResultList",
                Page(<< Payload("r1", "ANALYZING", None) >>))) }

\* transport failures: unauthorized, forbidden, not found, server error,
\* other statuses (with and without an "error" field), no response at all
\* and a success status whose body does not parse
FailureResponses ==
    { HttpResponse(401, JsonPlainBody),
      HttpResponse(403, TextBody),
      HttpResponse(404, JsonPlainBody),
      HttpResponse(500, TextBody),
      HttpResponse(418, TextBody),
      HttpResponse(429, JsonErrorBody("quota exceeded")),
      HttpResponse(200, TextBody),
      NetworkFailure }

\* responses that end a poll
FinalResponses(c, id) ==
    ( IF c = "get_result"
      THEN { HttpResponse(200, BodyOf("AnalysisResult", Payload(id, "COMPLETED", Some(750000)))),
             HttpResponse(201, BodyOf("AnalysisResult", Payload(id, "FAKE", Some(7500)))),
             HttpResponse(200, BodyOf("AnalysisResult", Payload(id, "ERROR", None))) }
      ELSE { HttpResponse(200, BodyOf("DetectionResultList",
                  Page(<< Payload("r1", "COMPLETED", Some(750000)), Payload("r2", "FAKE", None) >>))),
             HttpResponse(200, BodyOf("DetectionResultList", Page(<< >>))),
             HttpResponse(200, BodyOf("DetectionResultList",
                  Page(<< Payload("r1", "ERROR", None) >>))) } )
    \cup FailureResponses

\* an upstream answers the first k requests with busy and every later one
\* with then; then may be busy as well (an upstream that never finishes)
Upstreams(c, id) ==
    { [k |-> k, busy |-> b, then |-> t] :
        k \in 0..MaxK, b \in BusyResponses(c, id),
        t \in FinalResponses(c, id) \cup BusyResponses(c, id) }

\* the response to the i-th request (i = 1, 2, ...)
ResponseAt(up, i) == IF i <= up.k THEN up.busy ELSE up.then

OptionValues ==
    {None} \cup
    { Some(PollOptions(ma, pi, pn)) :
        ma \in AttemptBudgets, pi \in PollingIntervals, pn \in {None} }

(***************************************************************************)
(* State                                                                   *)
(***************************************************************************)
VARIABLES
    raw,               \* SpecNorm: the AnalysisResult handed to normalize_scores
    detection_result,  \* SpecNorm: Option<DetectionResult>, the value returned
    previous_result,   \* SpecNorm: the value an earlier call returned for raw
    call,              \* SpecPoll: "get_result" or "get_results"
    request_id,        \* SpecPoll: argument of get_result
    options,           \* SpecPoll: Option<GetResultOptions / GetResultsOptions>
    upstream,          \* SpecPoll: what the server answers
    pc,                \* SpecPoll: "start", "fetch", "sleep", "done"
    waiting,           \* SpecPoll: should_wait, once the call has started
    attempt,           \* SpecPoll: the loop counter of wait_for_result(s)
    requests,          \* SpecPoll: endpoints of the GETs issued so far
    sleeps,            \* SpecPoll: number of sleeps started so far
    outcome,           \* SpecPoll: Option<Result<..>>, the value returned
    file_paths,        \* SpecBatch: the files handed to process_batch
    batch_options,     \* SpecBatch: BatchOptions
    uploads,           \* SpecBatch: the upload futures, in input order
    request_ids,       \* SpecBatch: request ids of the successful uploads
    pollers,           \* SpecBatch: the get_result futures, one per request id
    function,          \* SpecLib: the function that is called
    argument,          \* SpecLib: its argument
    return_value       \* SpecLib: Option<..>, the value returned

normVars == << raw, detection_result, previous_result >>

pollVars == << call, request_id, options, upstream, pc, waiting, attempt,
               requests, sleeps, outcome >>

batchVars == << file_paths, batch_options, uploads, request_ids, pollers >>

libVars == << function, argument, return_value >>

vars == << normVars, pollVars, batchVars, libVars >>

\* the parts of the state a specification does not use
NoNorm == raw = None /\ detection_result = None /\ previous_result = None

NoPoll ==
    /\ call = "none" /\ request_id = "" /\ options = None /\ upstream = None
    /\ pc = "none" /\ waiting = FALSE /\ attempt = 0 /\ requests = << >>
    /\ sleeps = 0 /\ outcome = None

NoBatch ==
    /\ file_paths = << >> /\ batch_options = None /\ uploads = << >>
    /\ request_ids = << >> /\ pollers = << >>

NoLib == function = "none" /\ argument = None /\ return_value = None

(***************************************************************************)
(* SpecNorm: normalize_scores on every bounded payload                     *)
(***************************************************************************)
InitNorm ==
    /\ raw \in { Some(p) : p \in RawPayloads }
    /\ detection_result = None
    /\ previous_result = None
    /\ NoPoll
    /\ NoBatch
    /\ NoLib

\* normalize_scores is called on raw, a first and then a second time
Normalize ==
    /\ is_some(raw)
    /\ previous_result = None
    /\ detection_result' = Some(normalize_scores(unwrap(raw)))
    /\ previous_result' = detection_result
    /\ UNCHANGED << raw, pollVars, batchVars, libVars >>

NextNorm == Normalize

SpecNorm == InitNorm /\ [][NextNorm]_vars

(***************************************************************************)
(* SpecPoll: one call of get_result or get_results                         *)
(***************************************************************************)
InitPoll ==
    /\ NoNorm
    /\ NoBatch
    /\ NoLib
    /\ call \in {"get_result", "get_results"}
    /\ request_id \in {"r1"}
    /\ options \in OptionValues
    /\ upstream \in Upstreams(call, request_id)
    /\ pc = "start"
    /\ waiting = FALSE
    /\ attempt = 0
    /\ requests = << >>
    /\ sleeps = 0
    /\ outcome = None

opts == unwrap_or_default(options)

\* the call polls the result of one request (get_result, also as called by
\* detect_file), not a page of results
OneResult == call \in {"get_result", "detect_file"}

\* the endpoint the call fetches
Endpoint ==
    IF OneResult
    THEN << MEDIA_RESULT, request_id >>
    ELSE << ALL_MEDIA_RESULTS, unwrap_or(opts.page_number, 0) >>

\* the arguments of wait_for_result (opts.max_attempts.unwrap(), ..) and the
\* locals of wait_for_results (options.max_attempts.unwrap_or(5), ..)
max_attempts ==
    IF OneResult THEN unwrap(opts.max_attempts)
    ELSE unwrap_or(opts.max_attempts, 5)

polling_interval ==
    IF OneResult THEN unwrap(opts.polling_interval)
    ELSE unwrap_or(opts.polling_interval, 2000)

\* Option::unwrap of an absent value panics
UnwrapPanics ==
    OneResult /\ (~is_some(opts.max_attempts) \/ ~is_some(opts.polling_interval))

\* head of the for loop of wait_for_result / wait_for_results at counter i:
\* the next fetch is issued, or the loop is over and the call times out
LoopHead(i) ==
    IF InRange(i, max_attempts)
    THEN /\ pc' = "fetch"
         /\ requests' = Append(requests, Endpoint)
         /\ outcome' = None
    ELSE /\ pc' = "done"
         /\ requests' = requests
         /\ \E request_time \in RequestTimes(Len(requests)) :
              outcome' = Some(Err(TimedOut(IF OneResult THEN "result" ELSE "results",
                                           ElapsedSecs(sleeps, polling_interval, request_time))))

\* get_result / get_results up to the first await
Call ==
    /\ pc = "start"
    /\ waiting' = should_wait(opts)
    /\ attempt' = 0
    /\ IF should_wait(opts)
       THEN IF UnwrapPanics
            THEN pc' = "panic" /\ requests' = requests /\ outcome' = None
            ELSE LoopHead(0)
       ELSE /\ pc' = "fetch"
            /\ requests' = Append(requests, Endpoint)
            /\ outcome' = None
    /\ UNCHANGED << call, request_id, options, upstream, sleeps, normVars, batchVars, libVars >>

\* the value fetch_result / fetch_results makes of the response to the j-th GET
FetchedAt(j) ==
    IF OneResult
    THEN fetch_result(ResponseAt(upstream, j))
    ELSE fetch_results(ResponseAt(upstream, j))

\* does a successfully fetched value leave the poll unfinished
InProgress(value) ==
    IF call = "get_results" THEN still_analyzing(value) ELSE IsAnalyzing(value)

\* mutant of KeepsPolling: a failed fetch is slept on and retried
KeepsPolling_retry(result, wait) == wait /\ (~result.ok \/ InProgress(result.val))

\* the loop body after the fetch: `?` returns an error, a finished value is
\* returned, an unfinished one is slept on; without waiting the value of the
\* single fetch is returned as it is
KeepsPolling(result, wait) == result.ok /\ wait /\ InProgress(result.val)

\* a loop body that decides on the fetched value but returns the value of
\* the first fetch of the call
FetchReturns_stale ==
    /\ pc = "fetch"
    /\ LET result == FetchedAt(Len(requests)) IN
       IF KeepsPolling(result, waiting)
       THEN /\ pc' = "sleep"
            /\ outcome' = None
            /\ sleeps' = sleeps + 1
       ELSE /\ pc' = "done"
            /\ outcome' = Some(IF result.ok THEN FetchedAt(1) ELSE result)
            /\ sleeps' = sleeps
    /\ UNCHANGED << call, request_id, options, upstream, waiting, attempt,
                    requests, normVars, batchVars, libVars >>

\* the GET returns
FetchReturns ==
    /\ pc = "fetch"
    /\ LET result == FetchedAt(Len(requests)) IN
       IF KeepsPolling(result, waiting)
       THEN /\ pc' = "sleep"
            /\ outcome' = None
            /\ sleeps' = sleeps + 1
       ELSE /\ pc' = "done"
            /\ outcome' = Some(result)
            /\ sleeps' = sleeps
    /\ UNCHANGED << call, request_id, options, upstream, waiting, attempt,
                    requests, normVars, batchVars, libVars >>

\* the sleep is over: next iteration of the loop
SleepReturns ==
    /\ pc = "sleep"
    /\ attempt' = attempt + 1
    /\ LoopHead(attempt + 1)
    /\ UNCHANGED << call, request_id, options, upstream, waiting, sleeps, normVars, batchVars, libVars >>

NextPoll == Call \/ FetchReturns \/ SleepReturns

SpecPoll == InitPoll /\ [][NextPoll]_vars

(***************************************************************************)
(* SpecPure: normalize_scores called on a payload, twice, at any point of  *)
(* a call of get_result whose server may answer with the same payload      *)
(***************************************************************************)
\* the payloads of GET MEDIA_RESULT/<id> are the ones of the poll and ones
\* with models, a results summary and both score scales; the server answers
\* the first k requests with a result in progress and every later one with
\* one of the payloads or with a failure
InitPure ==
    LET payloads ==
          { Payload("r1", "ANALYZING", None),
            Payload("r1", "COMPLETED", Some(750000)),
            Payload("r1", "ERROR", None),
            AnalysisResult("r1", "FAKE", Some(850000),
                << DetectionModel("M", "FAKE", Some(Float(925000)), None, None) >>, None),
            AnalysisResult("r1", "FAKE", Some(7500),
                << DetectionModel("plain_low", "COMPLETED", Some(Float(2700)), Some(270000), None),
                   DetectionModel("object", "NOT_APPLICABLE", Some(Object), Some(800000), None) >>,
                Some(ResultsSummary("FAKE",
                        Some([k \in {"finalScore"} |-> JsonNumber(850000)])))),
            AnalysisResult("r1", "COMPLETED", None,
                << DetectionModel("object", "FAKE", Some(Object), Some(800000), None) >>,
                Some(ResultsSummary("COMPLETED",
                        Some([k \in {"finalScore"} |-> JsonString("n/a")])))) }
        answers ==
          { HttpResponse(200, BodyOf("AnalysisResult", p)) : p \in payloads }
          \cup { HttpResponse(201, BodyOf("AnalysisResult", Payload("r1", "FAKE", Some(7500)))) }
          \cup FailureResponses
    IN  /\ NoBatch
        /\ NoLib
        /\ call = "get_result"
        /\ request_id = "r1"
        /\ options \in OptionValues
        /\ upstream \in { [k |-> k, busy |-> b, then |-> t] :
                            k \in 0..MaxK, b \in BusyResponses("get_result", "r1"),
                            t \in answers }
        /\ pc = "start"
        /\ waiting = FALSE
        /\ attempt = 0
        /\ requests = << >>
        /\ sleeps = 0
        /\ outcome = None
        /\ raw \in { Some(p) : p \in payloads }
        /\ detection_result = None
        /\ previous_result = None

NextPure == NextPoll \/ Normalize

SpecPure == InitPure /\ [][NextPure]_vars

(***************************************************************************)
(* SpecBatch: one call of process_batch                                    *)
(***************************************************************************)
MaxFiles == 3

MaxBatchAttempts == 2

MaxConcurrency == 2

\* the bytes of a file that is not empty
Data == << "d", "a", "t", "a" >>

\* std::io::Error of a read, by its message
IOError(msg) == Error("IOError", << msg >>)

NotFound == IOError("No such file or directory (os error 2)")

IsADirectory == IOError("Is a directory (os error 21)")

\* a path of the caller as the calls of an upload see it: whether the path
\* exists when the upload starts, what tokio::fs::read returns once the
\* signed URL is there, and what std::fs::read returns after that
FileAt(name, exists, read, reread) ==
    [name |-> name, exists |-> exists, read |-> read, reread |-> reread]

\* a file that is not touched during the upload: does the path exist, is the
\* file empty
File(name, exists, empty) ==
    LET content == IF ~exists THEN Err(NotFound)
                   ELSE IF empty THEN Ok(<< >>) ELSE Ok(Data)
    IN  FileAt(name, exists, content, content)

FileKinds == { File(<< "a", "jpg" >>, TRUE, FALSE), File(<< "gone", "png" >>, FALSE, FALSE),
               File(<< "empty", "mp4" >>, TRUE, TRUE) }

\* BatchOptions
BatchOptions(mc, ma, pi) ==
    [max_concurrency |-> mc, max_attempts |-> ma, polling_interval |-> pi]

\* the option values of a batch: every max_concurrency (absent, 0, 1 or its
\* largest value) without a polling policy, and every polling policy (each
\* field absent, 0, 1 or its largest value) with max_concurrency 0 and with
\* its largest value
BatchOptionValues ==
    { BatchOptions(mc, None, None) :
        mc \in {None} \cup { Some(c) : c \in {0, 1, MaxConcurrency} } }
    \cup
    { BatchOptions(Some(c), ma, pi) :
        c \in {0, MaxConcurrency},
        ma \in {None} \cup { Some(n) : n \in {0, 1, MaxBatchAttempts} },
        pi \in {None, Some(0), Some(1000)} }

\* the request id the server assigns to the i-th file of the call
RequestIdOf(i) == << "req", i >>

\* SignedUrlResponse
SignedUrlResponse(id, media, url) ==
    [request_id |-> id, media_id |-> media, signed_url |-> url]

\* UploadResult
UploadResult(id, media, url) == [request_id |-> id, media_id |-> media, result_url |-> url]

\* answers to POST SIGNED_URL for the i-th file
PostResponses(i) ==
    { HttpResponse(200, BodyOf("SignedUrlResponse",
          SignedUrlResponse(RequestIdOf(i), << "media", i >>, << "signed", i >>))),
      HttpResponse(401, JsonPlainBody) }

\* answers to the PUT to the presigned URL during a batch
BatchPutResponses == { HttpResponse(200, RawBody("")), HttpResponse(403, TextBody) }

\* answers to the PUT to the presigned URL of a single upload: accepted,
\* refused with a body, with an empty body, with a body that cannot be read,
\* and no answer
UploadPutResponses ==
    { HttpResponse(200, RawBody("")),
      HttpResponse(204, UnreadableBody),
      HttpResponse(403, RawBody("<Error>AccessDenied</Error>")),
      HttpResponse(500, RawBody("oops")),
      HttpResponse(404, RawBody("")),
      HttpResponse(405, RawBody("")),
      HttpResponse(599, RawBody("")),
      HttpResponse(403, UnreadableBody),
      NetworkFailure }

\* answers to GET MEDIA_RESULT/<id> during a batch: the payload of that
\* request in progress or completed, a payload whose requestId field is not
\* the requested id, a server error
BatchFetchResponses(id) ==
    { HttpResponse(200, BodyOf("AnalysisResult", Payload(id, "ANALYZING", None))),
      HttpResponse(200, BodyOf("AnalysisResult", Payload(id, "COMPLETED", Some(750000)))),
      HttpResponse(200, BodyOf("AnalysisResult", Payload(RequestIdOf(0), "COMPLETED", None))),
      HttpResponse(500, TextBody) }

\* HttpClient::post::<T>: execute the request, then handle the response
http_post(response, T) ==
    IF response = NetworkFailure
    THEN Err(Error("RequestError", << >>))
    ELSE handle_response(response, T)

\* HttpClient::put: a status outside 2xx is an upload failure, reported
\* with the status and the text of the body; a body that cannot be read is
\* a request error
http_put(response) ==
    IF response = NetworkFailure
    THEN Err(Error("RequestError", << >>))
    ELSE IF response.status \in 200..299
         THEN Ok(<< >>)
         ELSE IF response.body = UnreadableBody
              THEN Err(Error("RequestError", << >>))
              ELSE Err(Error("UploadFailed",
                             << "Failed to upload to presigned URL. Status: ",
                                StatusDisplay(response.status),
                                " Body: ", response.body.text >>))

\* slice::chunks(chunk_size) of the sequence s, for chunk_size > 0
RECURSIVE chunks(_, _)
chunks(s, chunk_size) ==
    IF s = << >> THEN << >>
    ELSE IF Len(s) <= chunk_size THEN << s >>
         ELSE << SubSeq(s, 1, chunk_size) >> \o chunks(SubSeq(s, chunk_size + 1, Len(s)), chunk_size)

\* Iterator::flatten of a sequence of sequences
RECURSIVE flatten(_)
flatten(ss) == IF ss = << >> THEN << >> ELSE Head(ss) \o flatten(Tail(ss))

\* an extension that is not valid UTF-8
NonUtf8 == "<non-utf8>"

\* Path::file_name of a path given as the dot-separated parts of its last
\* component: none for ".", ".." and the root
file_name(name) ==
    IF name \in { << "", "" >>, << "", "", "" >>, << "/" >> } THEN None ELSE Some(name)

\* Path::extension: none without a file name, none without a dot, none for a
\* name whose only dot is the leading one
extension(name) ==
    IF file_name(name) = None THEN None
    ELSE IF Len(name) <= 1 THEN None
         ELSE IF Len(name) = 2 /\ name[1] = "" THEN None
              ELSE Some(name[Len(name)])

\* OsStr::to_str
to_str(os_str) == IF os_str = NonUtf8 THEN None ELSE Some(os_str)

\* path.file_name().and_then(|n| n.to_str()): the name is a string when
\* every part of it is
file_name_str(name) ==
    IF file_name(name) = None THEN None
    ELSE IF \E k \in 1..Len(name) : to_str(name[k]) = None THEN None
         ELSE Some(name)

\* path.extension().and_then(|ext| ext.to_str())
extension_str(name) ==
    IF is_some(extension(name)) THEN to_str(unwrap(extension(name))) ELSE None

\* a mapping that knows jpg but not jpeg
determine_content_type_no_jpeg(name) ==
    LET ext == extension_str(name) IN
    CASE ext = Some("jpg") -> "image/jpeg"
      [] ext = Some("png") -> "image/png"
      [] ext = Some("gif") -> "image/gif"
      [] ext = Some("mp4") -> "video/mp4"
      [] ext = Some("mov") -> "video/quicktime"
      [] ext = Some("avi") -> "video/x-msvideo"
      [] ext = Some("webm") -> "video/webm"
      [] OTHER -> "application/octet-stream"

\* utils::determine_content_type
determine_content_type(name) ==
    LET ext == extension_str(name) IN
    CASE ext \in {Some("jpg"), Some("jpeg")} -> "image/jpeg"
      [] ext = Some("png") -> "image/png"
      [] ext = Some("gif") -> "image/gif"
      [] ext = Some("mp4") -> "video/mp4"
      [] ext = Some("mov") -> "video/quicktime"
      [] ext = Some("avi") -> "video/x-msvideo"
      [] ext = Some("webm") -> "video/webm"
      [] OTHER -> "application/octet-stream"

\* the content type upload_file hands to put (its own match on the extension)
upload_content_type(name) ==
    LET ext == extension_str(name) IN
    CASE ext \in {Some("jpg"), Some("jpeg")} -> "image/jpeg"
      [] ext = Some("png") -> "image/png"
      [] ext = Some("gif") -> "image/gif"
      [] ext = Some("mp4") -> "video/mp4"
      [] ext = Some("mov") -> "video/quicktime"
      [] ext = Some("avi") -> "video/x-msvideo"
      [] ext = Some("webm") -> "video/webm"
      [] OTHER -> "application/octet-stream"

SIGNED_URL == "/api/files/aws-presigned"

\* a request sent to the network: the method, the URL, the headers that
\* matter and what is sent (the file name of the POST, the bytes of the PUT)
Request(method, url, headers, content) ==
    [method |-> method, url |-> url, headers |-> headers, content |-> content]

\* HttpClient::post to SIGNED_URL with {"fileName": file_name}
SignedUrlRequest(file) ==
    Request("POST", SIGNED_URL,
            [h \in {"X-API-KEY", "Content-Type", "Accept", "Accept-Encoding"} |->
                 CASE h = "X-API-KEY" -> "api_key"
                   [] h = "Content-Type" -> "application/json"
                   [] h = "Accept" -> "application/json"
                   [] OTHER -> "gzip"],
            unwrap(file_name_str(file.name)))

\* HttpClient::get of an endpoint under the base URL
GetRequest(endpoint) ==
    Request("GET", endpoint,
            [h \in {"X-API-KEY", "Accept", "Accept-Encoding"} |->
                 CASE h = "X-API-KEY" -> "api_key"
                   [] h = "Accept" -> "application/json"
                   [] OTHER -> "gzip"],
            None)

\* the decimal digits of a number (usize::to_string)
RECURSIVE to_string(_)
to_string(n) ==
    LET digit == << "0", "1", "2", "3", "4", "5", "6", "7", "8", "9" >>[(n % 10) + 1]
    IN  IF n < 10 THEN << digit >> ELSE to_string(n \div 10) \o << digit >>

\* a put that sends the API key along
PutRequest_with_key(file, signed_url, data) ==
    Request("PUT", signed_url,
            [h \in {"X-API-KEY", "Content-Type", "Content-Length"} |->
                 CASE h = "X-API-KEY" -> "api_key"
                   [] h = "Content-Type" -> upload_content_type(file.name)
                   [] OTHER -> to_string(Len(data))],
            data)

\* HttpClient::put of the bytes read from the file to the presigned URL,
\* with the content type upload_file (or upload_file_with_content) derives
\* from the path
PutRequest(file, signed_url, data) ==
    Request("PUT", signed_url,
            [h \in {"Content-Type", "Content-Length"} |->
                 IF h = "Content-Type" THEN upload_content_type(file.name)
                 ELSE to_string(Len(data))],
            data)

\* the statuses of the responses an upload has received
Statuses(responses) == [k \in 1..Len(responses) |-> responses[k].status]

\* an upload that skips the check of the path
upload_unchecked(file) ==
    IF file_name_str(file.name) = None
    THEN [pc |-> "done", file |-> file, signed |-> None,
          result |-> Some(Err(Error("InvalidFile", << "Invalid file name" >>))),
          calls |-> << >>, responses |-> << >>]
    ELSE [pc |-> "post", file |-> file, signed |-> None, result |-> None,
          calls |-> << SignedUrlRequest(file) >>, responses |-> << >>]

\* Client::upload up to its first await, for a file: the path is checked,
\* its file name is taken, then upload_file issues the POST for the signed
\* URL
upload(file) ==
    IF ~file.exists
    THEN [pc |-> "done", file |-> file, signed |-> None,
          result |-> Some(Err(Error("InvalidFile", << "File not found: ", file.name >>))),
          calls |-> << >>, responses |-> << >>]
    ELSE IF file_name_str(file.name) = None
         THEN [pc |-> "done", file |-> file, signed |-> None,
               result |-> Some(Err(Error("InvalidFile", << "Invalid file name" >>))),
               calls |-> << >>, responses |-> << >>]
         ELSE [pc |-> "post", file |-> file, signed |-> None, result |-> None,
               calls |-> << SignedUrlRequest(file) >>, responses |-> << >>]

\* future::join_all over the chunks, each a future::join_all over its
\* members: the first poll of the outer future polls every chunk, and every
\* chunk polls every member, so the future of every member of every chunk is
\* started; the outputs are flattened back in input order. The value is the
\* sequence of members whose futures are started by that first poll.
join_all_chunks(items, chunk_size) == flatten(chunks(items, chunk_size))

\* Client::get_result up to its first await, as called by process_batch;
\* `requests` are the endpoints of the GETs the call has issued
get_result_start(id, get_options) ==
    IF should_wait(get_options) /\ ~InRange(0, unwrap(get_options.max_attempts))
    THEN [pc |-> "done", request_id |-> id, attempt |-> 0, fetches |-> 0, sleeps |-> 0,
          requests |-> << >>, result |-> Some(Err(TimedOut("result", 0)))]
    ELSE [pc |-> "fetch", request_id |-> id, attempt |-> 0, fetches |-> 1, sleeps |-> 0,
          requests |-> << << MEDIA_RESULT, id >> >>, result |-> None]

\* a collection that takes the request id of every upload that was given a
\* signed URL, whether or not the upload went on to succeed
RECURSIVE collect_request_ids_signed(_)
collect_request_ids_signed(us) ==
    IF us = << >> THEN << >>
    ELSE IF is_some(Head(us).signed)
         THEN << unwrap(Head(us).signed).request_id >> \o collect_request_ids_signed(Tail(us))
         ELSE collect_request_ids_signed(Tail(us))

\* a collection of the request ids in reverse order
RECURSIVE collect_request_ids_reversed(_)
collect_request_ids_reversed(us) ==
    IF us = << >> THEN << >>
    ELSE IF unwrap(Head(us).result).ok
         THEN collect_request_ids_reversed(Tail(us)) \o << unwrap(Head(us).result).val.request_id >>
         ELSE collect_request_ids_reversed(Tail(us))

\* uploads.into_iter().filter_map(Ok(result) => Some(result.request_id))
RECURSIVE collect_request_ids(_)
collect_request_ids(us) ==
    IF us = << >> THEN << >>
    ELSE IF unwrap(Head(us).result).ok
         THEN << unwrap(Head(us).result).val.request_id >> \o collect_request_ids(Tail(us))
         ELSE collect_request_ids(Tail(us))

\* a collection that stops at the first failed result
RECURSIVE collect_ok_until_error(_)
collect_ok_until_error(ps) ==
    IF ps = << >> THEN << >>
    ELSE IF unwrap(Head(ps).result).ok
         THEN << unwrap(Head(ps).result).val >> \o collect_ok_until_error(Tail(ps))
         ELSE << >>

\* results.into_iter().filter_map(|r| r.ok())
RECURSIVE collect_ok(_)
collect_ok(ps) ==
    IF ps = << >> THEN << >>
    ELSE IF unwrap(Head(ps).result).ok
         THEN << unwrap(Head(ps).result).val >> \o collect_ok(Tail(ps))
         ELSE collect_ok(Tail(ps))

\* the placeholder returned per request id when not waiting
Placeholder(id) == DetectionResult(id, "PROCESSING", None, << >>)

AllDone(tasks) == \A i \in 1..Len(tasks) : tasks[i].pc = "done"

InitBatch ==
    /\ NoNorm
    /\ NoLib
    /\ call = "process_batch"
    /\ request_id = ""
    /\ options = None
    /\ upstream = None
    /\ pc = "start"
    /\ waiting = FALSE
    /\ attempt = 0
    /\ requests = << >>
    /\ sleeps = 0
    /\ outcome = None
    /\ file_paths \in UNION { [1..n -> FileKinds] : n \in 0..MaxFiles }
    /\ batch_options \in BatchOptionValues
    /\ uploads = << >>
    /\ request_ids = << >>
    /\ pollers = << >>

max_concurrency == unwrap_or(batch_options.max_concurrency, 5)

\* an emptiness test that never holds
is_empty_never(s) == FALSE

\* file_paths.is_empty()
is_empty(s) == s = << >>

\* process_batch up to its first await: the empty input returns at once,
\* chunks(0) panics, otherwise every upload is started
process_batch ==
    /\ pc = "start"
    /\ call = "process_batch"
    /\ waiting' = should_wait(batch_options)
    /\ IF is_empty(file_paths)
       THEN /\ pc' = "done"
            /\ outcome' = Some(Ok(<< >>))
            /\ uploads' = uploads
       ELSE IF max_concurrency = 0
            THEN /\ pc' = "panic"
                 /\ outcome' = None
                 /\ uploads' = uploads
            ELSE /\ pc' = "uploads"
                 /\ outcome' = None
                 /\ uploads' = LET started == join_all_chunks(file_paths, max_concurrency)
                               IN  [i \in 1..Len(started) |-> upload(started[i])]
    /\ UNCHANGED << call, request_id, options, upstream, attempt, requests, sleeps,
                    file_paths, batch_options, request_ids, pollers, normVars, libVars >>

\* upload_file: the POST for the signed URL returns
PostReturns(i) ==
    /\ pc = "uploads"
    /\ uploads[i].pc = "post"
    /\ \E response \in PostResponses(i) :
         LET signed_url_response == http_post(response, "SignedUrlResponse") IN
         uploads' = [uploads EXCEPT ![i] =
            IF signed_url_response.ok
            THEN [@ EXCEPT !.pc = "read", !.signed = Some(signed_url_response.val),
                           !.responses = Append(@, response)]
            ELSE [@ EXCEPT !.pc = "done", !.result = Some(signed_url_response),
                           !.responses = Append(@, response)]]
    /\ UNCHANGED << pollVars, file_paths, batch_options, request_ids, pollers, normVars, libVars >>

\* upload_file: tokio::fs::read returns. A failed read is an IO error. A
\* read that gives no bytes is tried again with std::fs::read: a failure is
\* an IO error, no bytes again is an empty file, and bytes are PUT by
\* upload_file_with_content. Bytes of the first read are PUT to the signed
\* URL.
ReadReturns(i) ==
    /\ pc = "uploads"
    /\ uploads[i].pc = "read"
    /\ LET file == uploads[i].file
           file_content == file.read
           std_file_content == file.reread
           signed_url == unwrap(uploads[i].signed).signed_url
       IN  uploads' = [uploads EXCEPT ![i] =
             IF ~file_content.ok
             THEN [@ EXCEPT !.pc = "done", !.result = Some(file_content)]
             ELSE IF Len(file_content.val) = 0
                  THEN IF ~std_file_content.ok
                       THEN [@ EXCEPT !.pc = "done", !.result = Some(std_file_content)]
                       ELSE IF Len(std_file_content.val) = 0
                            THEN [@ EXCEPT !.pc = "done",
                                           !.result = Some(Err(Error("InvalidFile",
                                                               << "File is empty: ", file.name >>)))]
                            ELSE [@ EXCEPT !.pc = "put",
                                           !.calls = Append(@, PutRequest(file, signed_url,
                                                                          std_file_content.val))]
                  ELSE [@ EXCEPT !.pc = "put",
                                 !.calls = Append(@, PutRequest(file, signed_url,
                                                                file_content.val))]]
    /\ UNCHANGED << pollVars, file_paths, batch_options, request_ids, pollers, normVars, libVars >>

\* upload_file: the PUT returns
PutReturns(i) ==
    /\ pc = "uploads"
    /\ uploads[i].pc = "put"
    /\ \E response \in (IF call = "process_batch" THEN BatchPutResponses
                         ELSE UploadPutResponses) :
         uploads' = [uploads EXCEPT ![i] =
            [@ EXCEPT !.pc = "done",
                      !.responses = Append(@, response),
                      !.result =
                         IF http_put(response).ok
                         THEN Some(Ok(UploadResult(unwrap(uploads[i].signed).request_id,
                                                   Some(unwrap(uploads[i].signed).media_id), None)))
                         ELSE Some(http_put(response))]]
    /\ UNCHANGED << pollVars, file_paths, batch_options, request_ids, pollers, normVars, libVars >>

\* a join that goes on as soon as one upload has completed, with the request
\* ids of the uploads completed by then
UploadsJoined_early ==
    /\ call = "process_batch"
    /\ pc = "uploads"
    /\ \E i \in 1..Len(uploads) : uploads[i].pc = "done"
    /\ request_ids' = collect_request_ids(SelectSeq(uploads, LAMBDA u : u.pc = "done"))
    /\ IF waiting
       THEN LET get_options == PollOptions(batch_options.max_attempts,
                                           batch_options.polling_interval, None)
                started == join_all_chunks(request_ids', max_concurrency)
            IN  /\ pollers' = [j \in 1..Len(started) |->
                                   get_result_start(started[j], get_options)]
                /\ pc' = "results"
                /\ outcome' = None
       ELSE /\ pollers' = pollers
            /\ pc' = "done"
            /\ outcome' = Some(Ok([j \in 1..Len(request_ids') |-> Placeholder(request_ids'[j])]))
    /\ UNCHANGED << call, request_id, options, upstream, waiting, attempt, requests, sleeps,
                    file_paths, batch_options, uploads, normVars, libVars >>

\* every upload has completed: the request ids are collected; when waiting
\* every poller is started, otherwise the placeholders are returned
UploadsJoined ==
    /\ call = "process_batch"
    /\ pc = "uploads"
    /\ AllDone(uploads)
    /\ request_ids' = collect_request_ids(uploads)
    /\ IF waiting
       THEN LET get_options == PollOptions(batch_options.max_attempts,
                                           batch_options.polling_interval, None)
                started == join_all_chunks(request_ids', max_concurrency)
            IN  /\ pollers' = [j \in 1..Len(started) |->
                                   get_result_start(started[j], get_options)]
                /\ pc' = "results"
                /\ outcome' = None
       ELSE /\ pollers' = pollers
            /\ pc' = "done"
            /\ outcome' = Some(Ok([j \in 1..Len(request_ids') |-> Placeholder(request_ids'[j])]))
    /\ UNCHANGED << call, request_id, options, upstream, waiting, attempt, requests, sleeps,
                    file_paths, batch_options, uploads, normVars, libVars >>

\* wait_for_result of poller j: its GET returns
PollerFetchReturns(j) ==
    /\ pc = "results"
    /\ pollers[j].pc = "fetch"
    /\ \E response \in BatchFetchResponses(pollers[j].requests[pollers[j].fetches][2]) :
         LET result == fetch_result(response) IN
         pollers' = [pollers EXCEPT ![j] =
            IF KeepsPolling(result, waiting)
            THEN [@ EXCEPT !.pc = "sleep", !.sleeps = @ + 1]
            ELSE [@ EXCEPT !.pc = "done", !.result = Some(result)]]
    /\ UNCHANGED << pollVars, file_paths, batch_options, uploads, request_ids, normVars, libVars >>

\* wait_for_result of poller j: its sleep is over
PollerSleepReturns(j) ==
    /\ pc = "results"
    /\ pollers[j].pc = "sleep"
    /\ IF InRange(pollers[j].attempt + 1, unwrap(batch_options.max_attempts))
       THEN pollers' = [pollers EXCEPT ![j] =
               [@ EXCEPT !.pc = "fetch", !.attempt = @ + 1, !.fetches = @ + 1,
                         !.requests = Append(@, << MEDIA_RESULT, pollers[j].request_id >>)]]
       ELSE \E request_time \in RequestTimes(pollers[j].fetches) :
            pollers' = [pollers EXCEPT ![j] =
               [@ EXCEPT !.pc = "done", !.attempt = @ + 1,
                         !.result = Some(Err(TimedOut("result",
                              ElapsedSecs(pollers[j].sleeps, unwrap(batch_options.polling_interval),
                                          request_time))))]]
    /\ UNCHANGED << pollVars, file_paths, batch_options, uploads, request_ids, normVars, libVars >>

\* every poller has completed: the successful results are returned
ResultsJoined ==
    /\ pc = "results"
    /\ AllDone(pollers)
    /\ pc' = "done"
    /\ outcome' = Some(Ok(collect_ok(pollers)))
    /\ UNCHANGED << call, request_id, options, upstream, waiting, attempt, requests, sleeps,
                    batchVars, normVars, libVars >>

NextBatch ==
    \/ process_batch
    \/ \E i \in 1..Len(uploads) : PostReturns(i) \/ ReadReturns(i) \/ PutReturns(i)
    \/ UploadsJoined
    \/ \E j \in 1..Len(pollers) : PollerFetchReturns(j) \/ PollerSleepReturns(j)
    \/ ResultsJoined

SpecBatch == InitBatch /\ [][NextBatch]_vars

(***************************************************************************)
(* SpecCallsFair: one call of get_result, get_results or process_batch     *)
(* whose uploads, fetches and sleeps eventually complete                   *)
(***************************************************************************)
InitCalls == InitPoll \/ InitBatch

NextCalls ==
    \/ call \in {"get_result", "get_results"} /\ NextPoll
    \/ call = "process_batch" /\ NextBatch

\* the runtime polls a future whose request, read or sleep has completed:
\* a step that can be taken is eventually taken
SpecCallsFair == InitCalls /\ [][NextCalls]_vars /\ WF_vars(NextCalls)

(***************************************************************************)
(* SpecDetect: one call of upload or detect_file                           *)
(***************************************************************************)
\* the budget detect_file gives get_result
DetectMaxAttempts == 150

DetectPollingInterval == 2000

\* the options of a poll without a waiting policy
DetectOptions_no_wait == Some(PollOptions(None, None, None))

\* Some(GetResultOptions { max_attempts: Some(150), polling_interval: Some(2000) })
DetectOptions ==
    Some(PollOptions(Some(DetectMaxAttempts), Some(DetectPollingInterval), None))

\* file names by extension: the known ones, upper and mixed case, unknown,
\* several dots, a trailing dot, no dot, a leading dot only, not UTF-8
FileNames ==
    { << "photo", e >> : e \in {"jpg", "jpeg", "png", "gif", "mp4", "mov", "avi", "webm",
                                "JPG", "Png", "webp", "txt", "", NonUtf8} }
    \cup { << "archive", "tar", "gz" >>, << "clip", "mp4", "jpg" >>, << "noext" >>,
           << "", "jpg" >> }

\* the files of an upload: one per name, a missing path, an empty file, the
\* paths without a file name (".", ".." and the root), a directory, a file
\* removed while the signed URL is requested, a file that has its bytes at
\* the second read only, and an empty file removed before the second read
DetectFiles ==
    { File(name, TRUE, FALSE) : name \in FileNames }
    \cup { File(<< "gone", "png" >>, FALSE, FALSE), File(<< "empty", "mp4" >>, TRUE, TRUE) }
    \cup { FileAt(name, TRUE, Err(IsADirectory), Err(IsADirectory)) :
             name \in { << "", "" >>, << "", "", "" >>, << "/" >>, << "dir", "jpg" >> } }
    \cup { FileAt(<< "removed", "jpg" >>, TRUE, Err(NotFound), Err(NotFound)),
           FileAt(<< "late", "jpg" >>, TRUE, Ok(<< >>), Ok(Data)),
           FileAt(<< "vanishing", "jpg" >>, TRUE, Ok(<< >>), Err(NotFound)) }

InitDetect ==
    /\ NoNorm
    /\ NoLib
    /\ call \in {"upload", "detect_file"}
    /\ request_id = ""
    /\ options = None
    /\ upstream \in IF call = "upload" THEN {None}
                    ELSE Upstreams("get_result", RequestIdOf(1))
    /\ pc = "begin"
    /\ waiting = FALSE
    /\ attempt = 0
    /\ requests = << >>
    /\ sleeps = 0
    /\ outcome = None
    /\ file_paths \in { << file >> : file \in DetectFiles }
    /\ batch_options = None
    /\ uploads = << >>
    /\ request_ids = << >>
    /\ pollers = << >>

\* upload / detect_file up to the first await: Client::upload is started
UploadStarts ==
    /\ pc = "begin"
    /\ call \in {"upload", "detect_file"}
    /\ uploads' = << upload(file_paths[1]) >>
    /\ pc' = "uploads"
    /\ UNCHANGED << call, request_id, options, upstream, waiting, attempt, requests, sleeps,
                    outcome, file_paths, batch_options, request_ids, pollers, normVars, libVars >>

\* Client::upload has returned: upload returns its result; detect_file
\* returns its error (the ? operator) or calls get_result with the request
\* id of the upload and the budget of 150 attempts, 2000 ms apart
UploadReturns ==
    /\ pc = "uploads"
    /\ call \in {"upload", "detect_file"}
    /\ AllDone(uploads)
    /\ LET upload_result == unwrap(uploads[1].result) IN
       IF call = "upload" \/ ~upload_result.ok
       THEN /\ pc' = "done"
            /\ outcome' = Some(upload_result)
            /\ UNCHANGED << request_id, options >>
       ELSE /\ pc' = "start"
            /\ outcome' = None
            /\ request_id' = upload_result.val.request_id
            /\ options' = DetectOptions
    /\ UNCHANGED << call, upstream, waiting, attempt, requests, sleeps,
                    batchVars, normVars, libVars >>

NextDetect ==
    \/ UploadStarts
    \/ PostReturns(1) \/ ReadReturns(1) \/ PutReturns(1)
    \/ UploadReturns
    \/ Call \/ FetchReturns \/ SleepReturns

SpecDetect == InitDetect /\ [][NextDetect]_vars

(***************************************************************************)
(* Library functions: Config::validate, Client::new, is_valid_url          *)
(***************************************************************************)
MaxStringLen == 2

\* a string is the sequence of its characters
StringsOver(chars) == UNION { [1..n -> chars] : n \in 0..MaxStringLen }

\* char::is_whitespace, on the characters of the model
is_whitespace(c) == c \in {" ", "\t", "\n"}

\* str::trim_start
RECURSIVE trim_start(_)
trim_start(s) ==
    IF s /= << >> /\ is_whitespace(Head(s)) THEN trim_start(Tail(s)) ELSE s

\* str::trim_end
RECURSIVE trim_end(_)
trim_end(s) ==
    IF s /= << >> /\ is_whitespace(s[Len(s)]) THEN trim_end(SubSeq(s, 1, Len(s) - 1)) ELSE s

\* a trim that strips blanks only
trim_blanks(s) == IF s /= << >> /\ \A i \in 1..Len(s) : s[i] = " " THEN << >> ELSE s

\* str::trim
trim(s) == trim_end(trim_start(s))

\* Config
Config(api_key, base_url, timeout_seconds) ==
    [api_key |-> api_key, base_url |-> base_url, timeout_seconds |-> timeout_seconds]

\* Config::validate
validate(config) ==
    IF is_empty(trim(config.api_key))
    THEN Err(Error("InvalidConfig", << "API key is required" >>))
    ELSE IF is_some(config.base_url) /\ is_empty(trim(unwrap(config.base_url)))
         THEN Err(Error("InvalidConfig", << "Base URL cannot be empty" >>))
         ELSE Ok(<< >>)

\* Config::get_timeout_seconds
get_timeout_seconds(config) == unwrap_or(config.timeout_seconds, 30)

\* HttpClient::new: the configuration is validated, then the reqwest client
\* is built (builder_ok: whether ClientBuilder::build succeeds)
HttpClient_new(config, builder_ok) ==
    IF ~validate(config).ok THEN validate(config)
    ELSE IF ~builder_ok THEN Err(Error("RequestError", << >>))
         ELSE Ok([config |-> config, timeout |-> get_timeout_seconds(config)])

\* Client::new
Client_new(config, builder_ok) ==
    LET http_client == HttpClient_new(config, builder_ok) IN
    IF http_client.ok THEN Ok([http_client |-> http_client.val]) ELSE http_client

\* a URL string together with what url::Url::parse makes of it
Url(text, parsed) == [text |-> text, parsed |-> parsed]

ParsedUrl(scheme, host) == [scheme |-> scheme, host |-> host]

\* Url::host_str of a host (a domain, an IPv4 or an IPv6 literal)
Host(kind, str) == [kind |-> kind, str |-> str]

\* addr::parse_domain_name: a host that is an address literal is no domain
parse_domain_name(host) ==
    IF host.kind = "domain" THEN Ok(host.str) ELSE Err(host.kind)

\* a scheme test that lets ftp through
AllowedScheme_with_ftp(scheme) == scheme \in {"http", "https", "ftp"}

\* match parsed_url.scheme() { "http" | "https" => .. }
AllowedScheme(scheme) == scheme \in {"http", "https"}

\* is_valid_url
is_valid_url(url) ==
    IF ~is_some(url.parsed)
    THEN Err(Error("InvalidRequest", << "Invalid URL: ", url.text >>))
    ELSE LET parsed_url == unwrap(url.parsed) IN
         IF ~AllowedScheme(parsed_url.scheme)
         THEN Err(Error("InvalidRequest", << "URL must use http or https scheme" >>))
         ELSE IF ~is_some(parsed_url.host)
              THEN Err(Error("InvalidRequest", << "URL must have a valid domain" >>))
              ELSE IF unwrap(parsed_url.host).str = ""
                   THEN Err(Error("InvalidRequest", << "URL must have a valid domain" >>))
                   ELSE IF ~parse_domain_name(unwrap(parsed_url.host)).ok
                        THEN Err(Error("InvalidRequest", << "URL must have a valid domain" >>))
                        ELSE Ok(<< >>)

(***************************************************************************)
(* Inputs of SpecLib                                                       *)
(***************************************************************************)
\* statuses with an arm of their own, other registered statuses, and one
\* that is not registered
HttpStatuses == {200, 201, 204, 400, 401, 403, 404, 405, 418, 422, 429, 500, 502, 503, 599}

HttpBodies ==
    { BodyOf("AnalysisResult", Payload("r1", "COMPLETED", Some(750000))),
      BodyOf("DetectionResultList", Page(<< Payload("r1", "FAKE", None) >>)),
      BodyOf("SignedUrlResponse", SignedUrlResponse("r1", "m1", "https://signed")),
      JsonErrorBody("Custom error message"),
      JsonErrorBody("quota exceeded"),
      JsonPlainBody,
      TextBody,
      RawBody(""),
      UnreadableBody }

ResponseTypes == {"AnalysisResult", "DetectionResultList", "SignedUrlResponse"}

HandleResponseArguments ==
    { [response |-> HttpResponse(status, body), T |-> T] :
        status \in HttpStatuses, body \in HttpBodies, T \in ResponseTypes }

ClientNewArguments ==
    { [config |-> Config(api_key, base_url, timeout_seconds), builder_ok |-> builder_ok] :
        api_key \in StringsOver({" ", "\t", "k"}),
        base_url \in {None} \cup { Some(u) : u \in StringsOver({" ", "\n", "u"}) },
        timeout_seconds \in {None, Some(120)},
        builder_ok \in BOOLEAN }

UrlArguments ==
    { Url("https://www.example.com",
          Some(ParsedUrl("https", Some(Host("domain", "www.example.com"))))),
      Url("http://www.example.com",
          Some(ParsedUrl("http", Some(Host("domain", "www.example.com"))))),
      Url("https://subdomain.example.com/video?id=123#section",
          Some(ParsedUrl("https", Some(Host("domain", "subdomain.example.com"))))),
      Url("ftp://example.com", Some(ParsedUrl("ftp", Some(Host("domain", "example.com"))))),
      Url("file:///path/to/file", Some(ParsedUrl("file", None))),
      Url("mailto:someone@example.com", Some(ParsedUrl("mailto", None))),
      Url("www.example.com", None),
      Url("https://", None),
      Url("", None),
      Url("https://192.168.1.1", Some(ParsedUrl("https", Some(Host("ipv4", "192.168.1.1"))))),
      Url("http://[::1]", Some(ParsedUrl("http", Some(Host("ipv6", "[::1]"))))),
      Url("ftp://[::1]", Some(ParsedUrl("ftp", Some(Host("ipv6", "[::1]"))))) }

(***************************************************************************)
(* SpecLib: one call of handle_response, Client::new or is_valid_url       *)
(***************************************************************************)
InitLib ==
    /\ NoNorm
    /\ NoPoll
    /\ NoBatch
    /\ \/ function = "handle_response" /\ argument \in { Some(a) : a \in HandleResponseArguments }
       \/ function = "Client::new" /\ argument \in { Some(a) : a \in ClientNewArguments }
       \/ function = "is_valid_url" /\ argument \in { Some(a) : a \in UrlArguments }
    /\ return_value = None

HandleResponse ==
    /\ function = "handle_response"
    /\ return_value = None
    /\ return_value' = Some(handle_response(unwrap(argument).response, unwrap(argument).T))
    /\ UNCHANGED << function, argument, normVars, pollVars, batchVars >>

ClientNew ==
    /\ function = "Client::new"
    /\ return_value = None
    /\ return_value' = Some(Client_new(unwrap(argument).config, unwrap(argument).builder_ok))
    /\ UNCHANGED << function, argument, normVars, pollVars, batchVars >>

IsValidUrl ==
    /\ function = "is_valid_url"
    /\ return_value = None
    /\ return_value' = Some(is_valid_url(unwrap(argument)))
    /\ UNCHANGED << function, argument, normVars, pollVars, batchVars >>

NextLib == HandleResponse \/ ClientNew \/ IsValidUrl

SpecLib == InitLib /\ [][NextLib]_vars

(***************************************************************************)
(* Properties of SpecBatch                                                 *)
(***************************************************************************)
\* the group (chunk) of the i-th element under the concurrency cap
GroupOf(i) == (i - 1) \div max_concurrency

\* futures that were started and have not completed
Outstanding(tasks) == { i \in 1..Len(tasks) : tasks[i].pc /= "done" }

\* C1: with max_concurrency = c >= 1 uploads are issued group by group: at
\* no point are more than c uploads outstanding, and no upload of a later
\* group is started before every upload of the preceding group has completed.
C1_UploadsGroupByGroup ==
    (call = "process_batch" /\ pc = "uploads" /\ max_concurrency >= 1)
    => /\ Cardinality(Outstanding(uploads)) <= max_concurrency
       /\ \A i \in 1..Len(uploads) : \A j \in 1..Len(uploads) :
            GroupOf(i) < GroupOf(j) => uploads[i].pc = "done"

\* C2: in the result phase with max_concurrency = c >= 1 at no point are
\* more than c get_result calls outstanding: the pollers of one group all
\* finish before any poller of the next group issues its first fetch.
C2_PollersGroupByGroup ==
    (call = "process_batch" /\ pc = "results" /\ max_concurrency >= 1)
    => /\ Cardinality(Outstanding(pollers)) <= max_concurrency
       /\ \A i \in 1..Len(pollers) : \A j \in 1..Len(pollers) :
            (GroupOf(i) < GroupOf(j) /\ pollers[j].fetches >= 1) => pollers[i].pc = "done"

\* C16: process_batch called with an empty input list returns the empty
\* success list as its first step, whatever the options are (a zero
\* max_concurrency included), and starts no upload and no poller, so no
\* request is issued.
C16_EmptyBatchReturnsAtOnce ==
    (call = "process_batch" /\ file_paths = << >>)
    => /\ pc \in {"start", "done"}
       /\ pc = "done" => outcome = Some(Ok(<< >>))
       /\ uploads = << >>
       /\ pollers = << >>
       /\ request_ids = << >>

C16_Witness ==
    /\ call = "process_batch"
    /\ file_paths = << >>
    /\ batch_options.max_concurrency = Some(0)
    /\ should_wait(batch_options)
    /\ pc = "done"
    /\ outcome = Some(Ok(<< >>))

\* the batch has returned
BatchReturned == call = "process_batch" /\ pc = "done" /\ file_paths /= << >>

\* waiting is not requested by the batch options
BatchWaitingDisabled ==
    \/ batch_options.max_attempts \in {None, Some(0)}
    \/ batch_options.polling_interval \in {None, Some(0)}

\* the positions of the inputs whose upload succeeded, in input order
UploadSucceeded(i) == uploads[i].pc = "done" /\ unwrap(uploads[i].result).ok

OkUploads == SelectSeq([i \in 1..Len(uploads) |-> i], UploadSucceeded)

\* C17: when waiting is not requested the returned batch issues no result
\* fetch and holds one placeholder per successful upload, in the order of
\* the originating inputs, each with that upload's request id, status
\* "PROCESSING", no score and no models.
C17_PlaceholdersWhenNotWaiting ==
    (BatchReturned /\ BatchWaitingDisabled)
    => /\ pollers = << >>
       /\ Len(uploads) = Len(file_paths)
       /\ \A i \in 1..Len(uploads) : uploads[i].file = file_paths[i]
       /\ unwrap(outcome).ok
       /\ Len(unwrap(outcome).val) = Len(OkUploads)
       /\ \A p \in 1..Len(OkUploads) :
            /\ unwrap(uploads[OkUploads[p]].result).val.request_id = RequestIdOf(OkUploads[p])
            /\ unwrap(outcome).val[p] =
                 [request_id |-> RequestIdOf(OkUploads[p]), status |-> "PROCESSING",
                  score |-> None, models |-> << >>]

C17_Witness ==
    /\ BatchReturned
    /\ batch_options.max_attempts = Some(2)
    /\ batch_options.polling_interval = Some(0)
    /\ Len(file_paths) = 3
    /\ OkUploads = << 1, 3 >>
    /\ Len(unwrap(outcome).val) = 2
    /\ unwrap(outcome).val[2].request_id = RequestIdOf(3)

\* the positions of the pollers whose get_result succeeded, in order
PollSucceeded(j) == pollers[j].pc = "done" /\ unwrap(pollers[j].result).ok

OkPollers == SelectSeq([j \in 1..Len(pollers) |-> j], PollSucceeded)

\* C18: a failed upload or a failed or timed-out poll removes only its own
\* item: the returned batch is a success, one poller was run to its end for
\* the request id of every successful upload, and the results are those of
\* the successful pollers in the order of their originating inputs.
C18_FailuresAreIsolated ==
    BatchReturned
    => /\ unwrap(outcome).ok
       /\ ~BatchWaitingDisabled
          => /\ Len(pollers) = Len(OkUploads)
             /\ \A j \in 1..Len(pollers) :
                  /\ pollers[j].request_id = RequestIdOf(OkUploads[j])
                  /\ pollers[j].pc = "done"
                  /\ pollers[j].fetches \in 1..unwrap(batch_options.max_attempts)
                  /\ unwrap(pollers[j].result).ok
                     => unwrap(pollers[j].result).val.status /= "ANALYZING"
             /\ Len(unwrap(outcome).val) = Len(OkPollers)
             /\ \A p \in 1..Len(OkPollers) :
                  unwrap(outcome).val[p] = unwrap(pollers[OkPollers[p]].result).val

C18_Witness ==
    /\ BatchReturned
    /\ ~BatchWaitingDisabled
    /\ Len(file_paths) = 3
    /\ OkUploads = << 1, 3 >>
    /\ OkPollers = << 2 >>
    /\ pollers[1].fetches = unwrap(batch_options.max_attempts)
    /\ unwrap(pollers[1].result) =
         Err(TimedOut("result", ElapsedSecs(pollers[1].sleeps,
                                            unwrap(batch_options.polling_interval), 0)))
    /\ Len(unwrap(outcome).val) = 1
    /\ unwrap(outcome).val[1].request_id = RequestIdOf(3)

\* the request ids the server assigned to uploads of this call
AssignedRequestIds ==
    { unwrap(uploads[i].signed).request_id :
        i \in { u \in 1..Len(uploads) : is_some(uploads[u].signed) } }

\* C19: for a non-empty input the returned batch has at most as many
\* entries as the input, and the request_id of every entry is a request id
\* that was assigned to the upload of some input of this call, in waiting
\* mode too.
C19_OutputIdsComeFromInputs ==
    BatchReturned
    => /\ unwrap(outcome).ok
       /\ Len(unwrap(outcome).val) <= Len(file_paths)
       /\ \A p \in 1..Len(unwrap(outcome).val) :
            unwrap(outcome).val[p].request_id \in AssignedRequestIds

\* the result phase of a batch: the pollers run, or have run
ResultPhase ==
    call = "process_batch" /\ ~BatchWaitingDisabled /\ file_paths /= << >>
    /\ pc \in {"results", "done"}

\* the request ids of the GETs issued by the pollers so far
FetchedRequestIds ==
    UNION { { pollers[j].requests[k][2] : k \in 1..Len(pollers[j].requests) } :
              j \in 1..Len(pollers) }

\* C32: in the result phase the request ids that are fetched are exactly
\* the request ids returned by the successful uploads of the call: no poller
\* exists before the result phase or without waiting, there is one poller
\* per successful upload, in input order, with that upload's request id,
\* every poller has issued a fetch, and every fetch of a poller is a GET of
\* MEDIA_RESULT/<its request id>.
C32_FetchedIdsAreUploadedIds ==
    call = "process_batch"
    => /\ ~ResultPhase => pollers = << >>
       /\ ResultPhase
          => LET ok == OkUploads IN
             /\ AllDone(uploads)
             /\ Len(pollers) = Len(ok)
             /\ \A j \in 1..Len(pollers) :
                  LET id == unwrap(uploads[ok[j]].result).val.request_id IN
                  /\ pollers[j].request_id = id
                  /\ Len(pollers[j].requests) = pollers[j].fetches
                  /\ pollers[j].fetches >= 1
                  /\ \A k \in 1..Len(pollers[j].requests) :
                       pollers[j].requests[k] = << MEDIA_RESULT, id >>
             /\ FetchedRequestIds
                = { unwrap(uploads[ok[p]].result).val.request_id : p \in 1..Len(ok) }

C32_Witness ==
    /\ call = "process_batch"
    /\ pc = "results"
    /\ Len(file_paths) = 3
    /\ OkUploads = << 1, 3 >>
    /\ Len(pollers) = 2
    /\ pollers[1].pc = "done"
    /\ pollers[2].requests = << << MEDIA_RESULT, RequestIdOf(3) >>,
                                << MEDIA_RESULT, RequestIdOf(3) >> >>

\* C33: process_batch is strictly two-phase: when a result fetch has been
\* issued, the upload of every input of the batch has completed, successfully
\* or not: it has its result and no request of its own outstanding.
C33_NoFetchBeforeUploadsComplete ==
    (call = "process_batch" /\ \E j \in 1..Len(pollers) : pollers[j].requests /= << >>)
    => /\ Len(uploads) = Len(file_paths)
       /\ \A i \in 1..Len(uploads) :
            /\ uploads[i].file = file_paths[i]
            /\ uploads[i].pc = "done"
            /\ is_some(uploads[i].result)
            /\ Len(uploads[i].responses) = Len(uploads[i].calls)

C33_Witness ==
    /\ call = "process_batch"
    /\ pc = "done"
    /\ Len(file_paths) = 3
    /\ Len(OkUploads) = 2
    /\ ~UploadSucceeded(2)
    /\ Statuses(uploads[2].responses) = << 200, 403 >>
    /\ \A j \in 1..Len(pollers) : pollers[j].fetches = 2

\* C31: process_batch never fails as a whole: for every input list and every
\* BatchOptions value, a zero max_concurrency with a non-empty input
\* included, the call does not abort, and when it returns it returns a
\* success value.
C31_BatchNeverFails ==
    call = "process_batch"
    => /\ pc /= "panic"
       /\ pc = "done" => (is_some(outcome) /\ unwrap(outcome).ok)

(***************************************************************************)
(* Properties of SpecPoll                                                  *)
(***************************************************************************)
Done == pc = "done"

\* number of GETs that have returned
Returned == IF pc = "fetch" THEN Len(requests) - 1 ELSE Len(requests)

\* the stub upstream of the polling claims: "ANALYZING" for the first k
\* fetches of get_result, then this "COMPLETED" payload (finalScore 75)
CompletedResponse ==
    HttpResponse(200, BodyOf("AnalysisResult", Payload(request_id, "COMPLETED", Some(750000))))

StubAnalyzingThenCompleted == call = "get_result" /\ upstream.then = CompletedResponse

\* the canonical result of that payload: score 0.75
CompletedResult == DetectionResult(request_id, "COMPLETED", Some(7500), << >>)

IntervalPositive == is_some(opts.polling_interval) /\ unwrap(opts.polling_interval) > 0

\* the error built after the polling loop, whatever the elapsed time
IsTimedOut(e) ==
    /\ e.kind = "UnknownError"
    /\ Len(e.msg) = 5
    /\ e.msg[1] = "Timed out waiting for "
    /\ e.msg[2] = (IF call = "get_result" THEN "result" ELSE "results")

\* C3: get_result with polling_interval > 0 against an upstream that answers
\* "ANALYZING" k times and then "COMPLETED": for every max_attempts > k the
\* call returns the completed result as a success after exactly k+1 fetches.
C3_CompletedAfterKPlusOneFetches ==
    ( /\ Done
      /\ StubAnalyzingThenCompleted
      /\ IntervalPositive
      /\ is_some(opts.max_attempts)
      /\ unwrap(opts.max_attempts) > upstream.k )
    => /\ outcome = Some(Ok(CompletedResult))
       /\ Len(requests) = upstream.k + 1

C3_Witness ==
    /\ Done
    /\ StubAnalyzingThenCompleted
    /\ IntervalPositive
    /\ upstream.k = 2
    /\ opts.max_attempts = Some(3)
    /\ outcome = Some(Ok(CompletedResult))
    /\ Len(requests) = 3

\* C4 as stated: against the same stub, every max_attempts with
\* 0 <= max_attempts <= k makes get_result return the timeout error, never a
\* success.
C4_Original_TimeoutForEveryBudgetUpToK ==
    ( /\ Done
      /\ StubAnalyzingThenCompleted
      /\ IntervalPositive
      /\ is_some(opts.max_attempts)
      /\ unwrap(opts.max_attempts) <= upstream.k )
    => /\ ~unwrap(outcome).ok
       /\ IsTimedOut(unwrap(outcome).err)

\* C4 amended: the timeout needs a budget of at least one attempt; for
\* polling_interval > 0 and 1 <= max_attempts <= k the call fetches
\* max_attempts times and returns the timed-out error, never a success.
\* (max_attempts = 0 disables waiting: one fetch, returned as a success.)
C4_TimeoutForBudgetOneToK ==
    ( /\ Done
      /\ StubAnalyzingThenCompleted
      /\ IntervalPositive
      /\ is_some(opts.max_attempts)
      /\ unwrap(opts.max_attempts) >= 1
      /\ unwrap(opts.max_attempts) <= upstream.k )
    => /\ ~unwrap(outcome).ok
       /\ IsTimedOut(unwrap(outcome).err)
       /\ Len(requests) = unwrap(opts.max_attempts)

C4_Witness ==
    /\ Done
    /\ StubAnalyzingThenCompleted
    /\ IntervalPositive
    /\ upstream.k = 2
    /\ opts.max_attempts = Some(2)
    /\ ~unwrap(outcome).ok
    /\ IsTimedOut(unwrap(outcome).err)
    /\ Len(requests) = 2

\* the polling policy disables waiting: options absent, or max_attempts
\* absent or 0, or polling_interval absent or 0
WaitingDisabled ==
    \/ options = None
    \/ opts.max_attempts \in {None, Some(0)}
    \/ opts.polling_interval \in {None, Some(0)}

\* the payload of a response that carries an AnalysisResult
IsResultResponse(response) ==
    response.status \in {200, 201} /\ response.body.parses = "AnalysisResult"

\* C5: with waiting disabled get_result performs exactly one fetch and no
\* sleep, and returns the normalized result of that fetch as a success
\* whatever its status ("ANALYZING" included).
C5_SingleFetchWhenWaitingDisabled ==
    (call = "get_result" /\ WaitingDisabled)
    => /\ sleeps = 0
       /\ Len(requests) <= 1
       /\ pc \in {"start", "fetch", "done"}
       /\ Done =>
            /\ Len(requests) = 1
            /\ IsResultResponse(ResponseAt(upstream, 1)) =>
                 outcome = Some(Ok(normalize_scores(ResponseAt(upstream, 1).body.value)))

C5_Witness ==
    /\ call = "get_result"
    /\ Done
    /\ opts.max_attempts = Some(0)
    /\ opts.polling_interval = Some(1000)
    /\ upstream.k >= 1
    /\ Len(requests) = 1
    /\ sleeps = 0
    /\ unwrap(outcome).ok
    /\ unwrap(outcome).val.status = "ANALYZING"

\* C6: in a waiting get_result the first fetch whose normalized status is
\* not "ANALYZING" (error statuses included) ends the poll: that result is
\* returned as a success, and no fetch and no sleep follows it.
C6_FirstTerminalStatusEndsPoll ==
    (call = "get_result" /\ ~WaitingDisabled)
    => \A j \in 1..Returned :
         ( /\ IsResultResponse(ResponseAt(upstream, j))
           /\ normalize_scores(ResponseAt(upstream, j).body.value).status /= "ANALYZING" )
         => /\ Done
            /\ Len(requests) = j
            /\ sleeps = j - 1
            /\ outcome = Some(Ok(normalize_scores(ResponseAt(upstream, j).body.value)))

C6_Witness ==
    /\ call = "get_result"
    /\ ~WaitingDisabled
    /\ Done
    /\ upstream.k = 1
    /\ Len(requests) = 2
    /\ sleeps = 1
    /\ unwrap(outcome).ok
    /\ unwrap(outcome).val.status = "ERROR"

\* the kind of the error a poll returns when its budget is exhausted
TimeoutKind == TimedOut("result", 0).kind

\* C7: the error of an exhausted polling budget has a kind that only budget
\* exhaustion produces: a call that ends with an error of that kind has not
\* ended on a transport failure.
C7_TimeoutKindOnlyFromExhaustedBudget ==
    ( /\ call \in {"get_result", "get_results"}
      /\ Done
      /\ ~unwrap(outcome).ok
      /\ unwrap(outcome).err.kind = TimeoutKind )
    => /\ waiting
       /\ attempt = max_attempts
       /\ FetchedAt(Len(requests)).ok

\* C8: in both polling loops a fetch that fails with a transport error ends
\* the loop at once: the same error is returned, and no fetch and no sleep
\* follows it.
C8_TransportErrorEndsPoll ==
    (call \in {"get_result", "get_results"} /\ ~WaitingDisabled)
    => \A j \in 1..Returned :
         LET response == ResponseAt(upstream, j)
             T == IF call = "get_result" THEN "AnalysisResult" ELSE "DetectionResultList"
         IN  ~http_get(response, T).ok
             => /\ Done
                /\ Len(requests) = j
                /\ sleeps = j - 1
                /\ outcome = Some(http_get(response, T))

C8_Witness ==
    /\ call = "get_results"
    /\ ~WaitingDisabled
    /\ Done
    /\ upstream.k = 2
    /\ Len(requests) = 3
    /\ sleeps = 2
    /\ outcome = Some(Err(Error("ServerError", << "Server error" >>)))

\* a response that carries a page of results
IsPageResponse(response) ==
    response.status \in {200, 201} /\ response.body.parses = "DetectionResultList"

\* C20: get_results without a waiting policy issues exactly one page fetch
\* and no sleep, and returns a page whose four counters are the upstream
\* values and whose items are the normalizations of the upstream items, as
\* many and in the same order.
C20_SinglePageFetchPassesCounters ==
    (call = "get_results" /\ WaitingDisabled)
    => /\ sleeps = 0
       /\ Len(requests) <= 1
       /\ pc \in {"start", "fetch", "done"}
       /\ Done =>
            /\ Len(requests) = 1
            /\ IsPageResponse(ResponseAt(upstream, 1)) =>
                 LET page == ResponseAt(upstream, 1).body.value
                     returned == unwrap(outcome)
                 IN  /\ returned.ok
                     /\ returned.val.total_items = page.total_items
                     /\ returned.val.total_pages = page.total_pages
                     /\ returned.val.current_page = page.current_page
                     /\ returned.val.current_page_items_count = page.current_page_items_count
                     /\ Len(returned.val.items) = Len(page.items)
                     /\ \A i \in 1..Len(page.items) :
                          returned.val.items[i] = normalize_scores(page.items[i])

C20_Witness ==
    /\ call = "get_results"
    /\ Done
    /\ opts.max_attempts = Some(2)
    /\ opts.polling_interval = None
    /\ upstream.k >= 1
    /\ Len(requests) = 1
    /\ unwrap(outcome).ok
    /\ unwrap(outcome).val.current_page = 1
    /\ Len(unwrap(outcome).val.items) = 2
    /\ unwrap(outcome).val.items[1].score = Some(7500)
    /\ unwrap(outcome).val.items[2].status = "ANALYZING"

\* the upstream page of a response holds an item in progress
PageInProgress(response) ==
    /\ IsPageResponse(response)
    /\ \E i \in 1..Len(response.body.value.items) :
         response.body.value.items[i].status = "ANALYZING"

\* C21: get_results with a waiting policy (max_attempts = n > 0 and
\* polling_interval > 0) returns the first fetched page without an
\* "ANALYZING" item; a page returned as a success never holds such an item;
\* when each of the n fetches holds one, the call fails with the timed-out
\* error after exactly n fetches.
C21_FirstSettledPageOrTimeout ==
    (call = "get_results" /\ ~WaitingDisabled /\ Done)
    => /\ unwrap(outcome).ok
          => /\ \A i \in 1..Len(unwrap(outcome).val.items) :
                  unwrap(outcome).val.items[i].status /= "ANALYZING"
             /\ outcome = Some(fetch_results(ResponseAt(upstream, Len(requests))))
             /\ \A j \in 1..(Len(requests) - 1) : PageInProgress(ResponseAt(upstream, j))
       /\ (\A j \in 1..unwrap(opts.max_attempts) : PageInProgress(ResponseAt(upstream, j)))
          => /\ ~unwrap(outcome).ok
             /\ IsTimedOut(unwrap(outcome).err)
             /\ Len(requests) = unwrap(opts.max_attempts)

C21_Witness ==
    /\ call = "get_results"
    /\ ~WaitingDisabled
    /\ Done
    /\ upstream.k = 2
    /\ Len(upstream.busy.body.value.items) = 2
    /\ opts.max_attempts = Some(3)
    /\ Len(requests) = 3
    /\ unwrap(outcome).ok
    /\ Len(unwrap(outcome).val.items) = 2
    /\ unwrap(outcome).val.items[2].status = "MANIPULATED"

\* C29: in both polling loops sleeps happen only between attempts: a poll
\* that has ended after n fetches has slept at most n-1 times, so no sleep
\* follows the last permitted fetch of a poll that times out.
C29_SleepsOnlyBetweenAttempts ==
    (call \in {"get_result", "get_results"} /\ Done /\ Len(requests) >= 1)
    => sleeps <= Len(requests) - 1

\* C30: a waiting poll with max_attempts = n has issued at most n fetches in
\* every state, and once it has returned (budget exhausted, terminal result
\* or error) it issues no further fetch.
C30_FetchesWithinBudget ==
    /\ []( (call \in {"get_result", "get_results"} /\ ~WaitingDisabled)
           => Len(requests) <= unwrap(opts.max_attempts) )
    /\ [][ (call \in {"get_result", "get_results"} /\ Done) => requests' = requests ]_vars

C30_Witness ==
    /\ call = "get_results"
    /\ ~WaitingDisabled
    /\ Done
    /\ opts.max_attempts = Some(MaxAttempts)
    /\ upstream.k = MaxAttempts
    /\ Len(requests) = MaxAttempts
    /\ ~unwrap(outcome).ok
    /\ IsTimedOut(unwrap(outcome).err)

\* C34: the result returned by a successful poll is the normalization of
\* the payload obtained by the last fetch of that poll, whatever earlier
\* fetches of the poll obtained: for get_result the normalized payload of
\* the response to the last GET, for get_results the formatted page of the
\* response to the last GET.
C34_ResultIsLastFetchNormalized ==
    (call \in {"get_result", "get_results"} /\ Done /\ unwrap(outcome).ok)
    => LET last == ResponseAt(upstream, Len(requests)) IN
       /\ Len(requests) >= 1
       /\ call = "get_result"
          => /\ IsResultResponse(last)
             /\ unwrap(outcome).val = normalize_scores(last.body.value)
       /\ call = "get_results"
          => /\ IsPageResponse(last)
             /\ unwrap(outcome).val = format_results_list(last.body.value)

C34_Witness ==
    /\ call = "get_result"
    /\ Done
    /\ upstream.k = 2
    /\ Len(requests) = 3
    /\ IsResultResponse(ResponseAt(upstream, 3))
    /\ ResponseAt(upstream, 1).body.value.status = "ANALYZING"
    /\ ResponseAt(upstream, 3).body.value.status = "FAKE"
    /\ ResponseAt(upstream, 3).body.value.final_score = Some(7500)
    /\ unwrap(outcome).ok
    /\ unwrap(outcome).val.status = "MANIPULATED"
    /\ unwrap(outcome).val.score = Some(75)

\* C36: every call terminates: when every upload, fetch and sleep
\* eventually completes, get_result, get_results and process_batch
\* eventually return a success or an error.
C36_EveryCallReturns == <>(Done /\ is_some(outcome))

(***************************************************************************)
(* Properties of SpecNorm                                                  *)
(***************************************************************************)
Normalized == is_some(detection_result)

\* the scale rule of the specification: divide by 100 only above 1.0
ScaleToUnit(s) == IF s > ScoreUnit THEN s \div 100 ELSE s

\* C9: overall score resolution is first-match-wins: when the raw payload
\* carries a top-level final score the canonical score is derived from it
\* (on either scale), whatever the results-summary metadata carries.
C9_TopLevelScoreWins ==
    (Normalized /\ is_some(unwrap(raw).final_score))
    => unwrap(detection_result).score \in
         { Some(Div100(unwrap(unwrap(raw).final_score))),
           Some(unwrap(unwrap(raw).final_score)) }

\* the raw overall scores a payload carries
RawOverallScores(result) ==
    { unwrap(o) : o \in { x \in {result.final_score, MetadataFinalScore(result)} : is_some(x) } }

\* C10: a raw overall score s in [0,100] yields s/100 when s > 1 and s
\* unchanged when s <= 1, so the canonical score lies in [0,1] (0.75 yields
\* 0.75, 75 yields 0.75).
C10_OverallScoreScale ==
    (Normalized /\ RawOverallScores(unwrap(raw)) /= {})
    => /\ unwrap(detection_result).score \in
            { Some(ScaleToUnit(s)) : s \in RawOverallScores(unwrap(raw)) }
       /\ unwrap(unwrap(detection_result).score) \in 0..ScoreUnit

\* the raw model is retained by the filtering rule of the specification
Retained(model) == model.status /= "NOT_APPLICABLE"

\* the upstream models the canonical list stands for, in upstream order
RetainedRaw == SelectSeq(unwrap(raw).models, Retained)

CanonicalModels == unwrap(detection_result).models

\* the raw model carries a plain-number predictionNumber
HasPlainPrediction(model) ==
    /\ is_some(model.prediction_number)
    /\ unwrap(model.prediction_number).variant = "Float"

\* C11: a model whose predictionNumber is a plain number v in [0,100] has
\* the canonical score v when v <= 1 and v/100 when v > 1, so every
\* canonical model score lies in [0,1] (92.5 yields 0.925).
C11_ModelScoreScale ==
    Normalized
    => /\ Len(CanonicalModels) = Len(RetainedRaw)
       /\ \A i \in 1..Len(RetainedRaw) :
            HasPlainPrediction(RetainedRaw[i])
            => /\ CanonicalModels[i].score =
                    Some(ScaleToUnit(unwrap(RetainedRaw[i].prediction_number).val))
               /\ unwrap(CanonicalModels[i].score) \in 0..ScoreUnit

\* the score the fallback rule of the specification gives a model whose
\* predictionNumber is not a plain number
FallbackScore(model) ==
    IF is_some(model.normalized_prediction_number)
    THEN Some(ScaleToUnit(unwrap(model.normalized_prediction_number)))
    ELSE IF is_some(model.final_score)
         THEN Some(ScaleToUnit(unwrap(model.final_score)))
         ELSE None

\* C12: a model whose predictionNumber is absent or a structured object
\* gets its score from normalizedPredictionNumber if numeric, else from
\* finalScore if numeric, with the same scale rule (80.0 yields 0.80, 70.0
\* yields 0.70), and has no score only when neither is present.
C12_ModelScoreFallback ==
    Normalized
    => /\ Len(CanonicalModels) = Len(RetainedRaw)
       /\ \A i \in 1..Len(RetainedRaw) :
            ~HasPlainPrediction(RetainedRaw[i])
            => CanonicalModels[i].score = FallbackScore(RetainedRaw[i])

\* C13: a canonical model score is present exactly when the raw model's
\* predictionNumber is a plain number; an absent or structured
\* predictionNumber gives no score, also when normalizedPredictionNumber or
\* finalScore of that model is numeric.
C13_ScoreIffPlainPrediction ==
    Normalized
    => /\ Len(CanonicalModels) = Len(RetainedRaw)
       /\ \A i \in 1..Len(RetainedRaw) :
            is_some(CanonicalModels[i].score) <=> HasPlainPrediction(RetainedRaw[i])

C13_Witness ==
    /\ Normalized
    /\ Len(RetainedRaw) = 2
    /\ RetainedRaw[1].prediction_number = Some(Object)
    /\ is_some(RetainedRaw[1].normalized_prediction_number)
    /\ CanonicalModels[1].score = None
    /\ RetainedRaw[2].prediction_number = None
    /\ is_some(RetainedRaw[2].final_score)
    /\ CanonicalModels[2].score = None

\* the public label of a raw status
PublicStatus(s) == IF s = "FAKE" THEN "MANIPULATED" ELSE s

\* C14: no status of the canonical result, overall or of a retained model,
\* is "FAKE": a raw "FAKE" becomes "MANIPULATED" and every other raw status
\* is passed through unchanged.
C14_NoFakeStatus ==
    Normalized
    => /\ unwrap(detection_result).status /= "FAKE"
       /\ unwrap(detection_result).status = PublicStatus(unwrap(raw).status)
       /\ Len(CanonicalModels) = Len(RetainedRaw)
       /\ \A i \in 1..Len(RetainedRaw) :
            /\ CanonicalModels[i].status /= "FAKE"
            /\ CanonicalModels[i].status = PublicStatus(RetainedRaw[i].status)

C14_Witness ==
    /\ Normalized
    /\ unwrap(raw).status = "FAKE"
    /\ unwrap(detection_result).status = "MANIPULATED"
    /\ Len(RetainedRaw) = 2
    /\ RetainedRaw[1].status = "FAKE"
    /\ CanonicalModels[1].status = "MANIPULATED"
    /\ RetainedRaw[2].status = "COMPLETED"
    /\ CanonicalModels[2].status = "COMPLETED"

\* positions of the upstream models that are not "NOT_APPLICABLE"
RetainedPositions == { i \in 1..Len(unwrap(raw).models) : Retained(unwrap(raw).models[i]) }

\* C15: the canonical models list is the subsequence of the upstream models
\* whose status is not "NOT_APPLICABLE": there is an order-preserving
\* one-to-one map from its positions onto the retained upstream positions
\* under which every entry carries the name of its upstream model.
C15_ModelsAreRetainedSubsequence ==
    Normalized
    => /\ Len(CanonicalModels) = Cardinality(RetainedPositions)
       /\ \A i \in 1..Len(CanonicalModels) : CanonicalModels[i].status /= "NOT_APPLICABLE"
       /\ \E f \in [1..Len(CanonicalModels) -> RetainedPositions] :
            /\ \A i, j \in 1..Len(CanonicalModels) : i < j => f[i] < f[j]
            /\ \A i \in 1..Len(CanonicalModels) :
                 CanonicalModels[i].name = unwrap(raw).models[f[i]].name

C15_Witness ==
    /\ Normalized
    /\ Len(unwrap(raw).models) = 2
    /\ unwrap(raw).models[1].status = "NOT_APPLICABLE"
    /\ unwrap(raw).models[2].status = "FAKE"
    /\ Len(CanonicalModels) = 1
    /\ CanonicalModels[1].name = unwrap(raw).models[2].name

(***************************************************************************)
(* Properties of SpecPure                                                  *)
(***************************************************************************)
\* the GETs issued so far are the ones of the poll: one per loop iteration
\* started, each to the endpoint of the result
RequestsAreThoseOfThePoll ==
    /\ \A i \in 1..Len(requests) : requests[i] = Endpoint
    /\ pc \in {"start", "panic"} => requests = << >> /\ sleeps = 0
    /\ pc = "fetch" => Len(requests) = sleeps + 1
    /\ pc = "sleep" => Len(requests) = sleeps
    /\ pc = "done"
       => Len(requests) =
            IF outcome = Some(FetchedAt(Len(requests))) THEN sleeps + 1 ELSE sleeps

\* the call of get_result has returned the normalization of the payload
\* that is also normalized on its own
ReturnedTheSamePayload ==
    /\ pc = "done"
    /\ is_some(outcome)
    /\ unwrap(outcome).ok
    /\ ResponseAt(upstream, Len(requests)).body = BodyOf("AnalysisResult", unwrap(raw))

Returns(f) == function = f /\ is_some(return_value)

\* the body is JSON with a string field "error"
HasErrorString(body) == body.parses /= "text" /\ body.error /= None

\* C24: a handled response maps to one outcome by its status: 200 and 201
\* parse the body (a parse failure is a JSON error), 401 and 403 give the
\* unauthorized error, 404 the not-found error, 500 the server error, every
\* other status the unknown error, whose message is the body's "error"
\* string when there is one and "Unknown error (HTTP <status>)" otherwise.
C24_StatusMapsToOneOutcome ==
    Returns("handle_response")
    => LET status == unwrap(argument).response.status
           body == unwrap(argument).response.body
           out == unwrap(return_value)
       IN  /\ status \in {200, 201}
              => IF body.parses = unwrap(argument).T
                 THEN out = Ok(body.value)
                 ELSE ~out.ok /\ out.err.kind = "JsonError"
           /\ status \in {401, 403} => (~out.ok /\ out.err.kind = "Unauthorized")
           /\ status = 404 => (~out.ok /\ out.err.kind = "NotFound")
           /\ status = 500 => (~out.ok /\ out.err.kind = "ServerError")
           /\ status \notin {200, 201, 401, 403, 404, 500}
              => /\ ~out.ok
                 /\ out.err.kind = "UnknownError"
                 /\ out.err.msg =
                      IF HasErrorString(body) THEN << unwrap(body.error) >>
                      ELSE << "Unknown error (HTTP ", StatusDisplay(status), ")" >>

\* the string is empty or holds whitespace only
Blank(str) == \A i \in 1..Len(str) : str[i] \in {" ", "\t", "\n"}

\* C25: Client::new fails with a configuration error, and without a network
\* call, exactly when the api key is blank or the base URL is given and
\* blank; otherwise validation succeeds and the client is built.
C25_ConstructionValidatesConfig ==
    Returns("Client::new")
    => LET config == unwrap(argument).config
           out == unwrap(return_value)
           invalid == Blank(config.api_key)
                        \/ (config.base_url /= None /\ Blank(unwrap(config.base_url)))
       IN  /\ (~out.ok /\ out.err.kind = "InvalidConfig") <=> invalid
           /\ ~invalid => validate(config) = Ok(<< >>)
           /\ (~invalid /\ unwrap(argument).builder_ok) => out.ok
           /\ requests = << >>

C25_Witness ==
    /\ Returns("Client::new")
    /\ unwrap(argument).config.api_key = << " ", "\t" >>
    /\ unwrap(argument).config.base_url = Some(<< "u" >>)
    /\ unwrap(return_value) = Err(Error("InvalidConfig", << "API key is required" >>))

\* C27: is_valid_url accepts a string only if it parses as a URL with scheme
\* http or https and a present, non-empty host that is a domain name; every
\* other input (empty, no scheme, ftp or file scheme, IPv4 or IPv6 literal
\* host) is rejected with an invalid-request error.
C27_UrlAcceptedOnlyWithHttpDomain ==
    Returns("is_valid_url")
    => LET url == unwrap(argument)
           out == unwrap(return_value)
           acceptable ==
               /\ url.parsed /= None
               /\ unwrap(url.parsed).scheme \in {"http", "https"}
               /\ unwrap(url.parsed).host /= None
               /\ unwrap(unwrap(url.parsed).host).str /= ""
               /\ unwrap(unwrap(url.parsed).host).kind = "domain"
       IN  /\ out.ok <=> acceptable
           /\ ~out.ok => out.err.kind = "InvalidRequest"

C27_Witness ==
    /\ Returns("is_valid_url")
    /\ unwrap(argument).text = "https://192.168.1.1"
    /\ unwrap(return_value) =
         Err(Error("InvalidRequest", << "URL must have a valid domain" >>))

(***************************************************************************)
(* Properties of SpecDetect                                                *)
(***************************************************************************)
SingleItem == call \in {"upload", "detect_file"}

\* the file handed to upload / detect_file
TheFile == file_paths[1]

\* the requests the upload has sent so far
UploadCalls == IF uploads = << >> THEN << >> ELSE uploads[1].calls

UploadDone == uploads /= << >> /\ uploads[1].pc = "done"

\* C22: upload of a path that does not exist fails with the invalid-file
\* error before any request is sent (no signed-URL POST, no PUT, no fetch),
\* and that error is what the single-item operation returns.
C22_MissingPathFailsBeforeNetwork ==
    (SingleItem /\ ~TheFile.exists)
    => /\ UploadCalls = << >>
       /\ requests = << >>
       /\ pc \in {"begin", "uploads", "done"}
       /\ UploadDone => uploads[1].result =
              Some(Err(Error("InvalidFile", << "File not found: ", TheFile.name >>)))
       /\ Done => outcome =
              Some(Err(Error("InvalidFile", << "File not found: ", TheFile.name >>)))

C22_Witness ==
    /\ call = "detect_file"
    /\ ~TheFile.exists
    /\ Done
    /\ uploads[1].calls = << >>
    /\ requests = << >>
    /\ ~unwrap(outcome).ok
    /\ unwrap(outcome).err.kind = "InvalidFile"

\* the ordering of the two steps: a PUT is the second request, after a POST
\* that was answered with a success, and goes to the URL of that answer
PutFollowsSignedUrl ==
    \A i \in 1..Len(UploadCalls) :
        /\ UploadCalls[i].method = "PUT" <=> i = 2
        /\ i = 2 => /\ uploads[1].responses[1].status \in {200, 201}
                    /\ uploads[1].signed /= None
                    /\ UploadCalls[2].url = unwrap(uploads[1].signed).signed_url
                    /\ UploadCalls[2].url = << "signed", 1 >>

\* a success is returned only after both requests succeeded and carries the
\* request id of the POST
SuccessNeedsBothSteps ==
    UploadDone
    => LET result == unwrap(uploads[1].result) IN
       /\ result.ok <=> (/\ Len(uploads[1].responses) = 2
                         /\ uploads[1].responses[1].status \in {200, 201}
                         /\ uploads[1].responses[2].status \in 200..299)
       /\ result.ok => result.val.request_id = RequestIdOf(1)
       /\ (call = "upload" /\ Done) => outcome = uploads[1].result

\* the PUT was answered with a status that is not a success
PutRefused ==
    /\ UploadDone
    /\ Len(uploads[1].responses) = 2
    /\ uploads[1].responses[2] /= NetworkFailure
    /\ uploads[1].responses[2].status \notin 200..299

\* a file without bytes: both reads of the upload return nothing
EmptyFile(file) == file.read = Ok(<< >>) /\ file.reread = Ok(<< >>)

EmptyFileError == Err(Error("InvalidFile", << "File is empty: ", TheFile.name >>))

\* C23: the PUT follows a successful POST and goes to the URL it returned,
\* no PUT is sent for an empty file, whose upload fails with the invalid-file
\* error, a request id is returned only if both requests succeeded, and a
\* PUT answered with a status that is not a success is an upload failure.
C23_TwoStepUpload ==
    SingleItem
    => /\ PutFollowsSignedUrl
       /\ SuccessNeedsBothSteps
       /\ PutRefused => /\ ~unwrap(uploads[1].result).ok
                        /\ unwrap(uploads[1].result).err.kind = "UploadFailed"
       /\ EmptyFile(TheFile)
          => /\ Len(UploadCalls) <= 1
             /\ UploadDone => unwrap(uploads[1].result) = EmptyFileError

\* the response to the j-th fetch is a result still in progress
ResultInProgress(response) ==
    IsResultResponse(response) /\ response.body.value.status = "ANALYZING"

\* C26: detect_file uploads the file and then polls with a budget of 150
\* attempts, 2000 ms apart: a failed upload is returned as the error and no
\* fetch is issued, every fetch asks for the request id the upload returned,
\* and the first result that is not "ANALYZING" is returned.
C26_DetectUploadsThenPolls ==
    call = "detect_file"
    => /\ requests /= << >>
          => /\ UploadDone /\ unwrap(uploads[1].result).ok
             /\ options = Some(PollOptions(Some(150), Some(2000), None))
             /\ Len(requests) <= 150
             /\ \A j \in 1..Len(requests) :
                  requests[j] = << "/api/media/users",
                                   unwrap(uploads[1].result).val.request_id >>
       /\ (Done /\ ~unwrap(uploads[1].result).ok)
          => (requests = << >> /\ outcome = uploads[1].result)
       /\ (Done /\ unwrap(uploads[1].result).ok)
          => LET n == Len(requests) IN
             /\ n >= 1
             /\ \A j \in 1..(n - 1) : ResultInProgress(ResponseAt(upstream, j))
             /\ IF ResultInProgress(ResponseAt(upstream, n))
                THEN /\ n = 150
                     /\ \E request_time \in RequestTimes(150) :
                          outcome = Some(Err(TimedOut("result",
                                                      ElapsedSecs(150, 2000, request_time))))
                ELSE outcome = Some(fetch_result(ResponseAt(upstream, n)))

C26_Witness ==
    /\ call = "detect_file"
    /\ Done
    /\ upstream.k = 2
    /\ Len(requests) = 3
    /\ sleeps = 2
    /\ unwrap(outcome).ok
    /\ unwrap(outcome).val.request_id = RequestIdOf(1)
    /\ unwrap(outcome).val.status = "MANIPULATED"

\* the extension the mapping looks at: what follows the last dot of the file
\* name, when the name has a dot that is not its first character only
LastExtension(name) ==
    IF Len(name) >= 3 \/ (Len(name) = 2 /\ name[1] /= "") THEN << name[Len(name)] >> ELSE << >>

\* the content type the mapping is to give
ExpectedContentType(name) ==
    LET e == LastExtension(name) IN
    IF e \in {<< "jpg" >>, << "jpeg" >>} THEN "image/jpeg"
    ELSE IF e = << "png" >> THEN "image/png"
    ELSE IF e = << "gif" >> THEN "image/gif"
    ELSE IF e = << "mp4" >> THEN "video/mp4"
    ELSE IF e = << "mov" >> THEN "video/quicktime"
    ELSE IF e = << "avi" >> THEN "video/x-msvideo"
    ELSE IF e = << "webm" >> THEN "video/webm"
    ELSE "application/octet-stream"

\* C28: determine_content_type maps the last extension of the path, case
\* sensitively, to its content type and everything else (no extension,
\* empty, unknown, upper or mixed case, not UTF-8) to
\* application/octet-stream; the Content-Type of the PUT of an upload is
\* this mapping of the uploaded path.
C28_ContentTypeByExtension ==
    SingleItem
    => /\ determine_content_type(TheFile.name) = ExpectedContentType(TheFile.name)
       /\ \A i \in 1..Len(UploadCalls) :
            UploadCalls[i].method = "PUT"
            => /\ UploadCalls[i].headers["Content-Type"] = ExpectedContentType(TheFile.name)
               /\ UploadCalls[i].headers["Content-Type"] = determine_content_type(TheFile.name)

C28_Witness ==
    /\ call = "upload"
    /\ TheFile.name = << "photo", "JPG" >>
    /\ Len(uploads) = 1
    /\ Len(uploads[1].calls) = 2
    /\ uploads[1].calls[2].method = "PUT"
    /\ uploads[1].calls[2].headers["Content-Type"] = "application/octet-stream"

\* every request the call has sent so far: those of the upload, then the
\* GETs of the result
SentRequests ==
    UploadCalls \o [j \in 1..Len(requests) |-> GetRequest(requests[j])]

\* C37: the API key is attached to every GET and POST sent to the base URL
\* and to no PUT sent to a presigned URL: every GET is one of a result
\* endpoint and every POST one of the signed-URL endpoint, both with the
\* X-API-KEY header set to the configured key; every PUT goes to the URL the
\* POST returned and carries no X-API-KEY header.
C37_ApiKeyNeverOnPresignedPut ==
    SingleItem
    => LET sent == SentRequests IN
       \A i \in 1..Len(sent) :
         LET request == sent[i] IN
         /\ request.method \in {"GET", "POST", "PUT"}
         /\ request.method = "POST"
            => /\ request.url = SIGNED_URL
               /\ "X-API-KEY" \in DOMAIN request.headers
               /\ request.headers["X-API-KEY"] = "api_key"
         /\ request.method = "GET"
            => /\ request.url = << MEDIA_RESULT, RequestIdOf(1) >>
               /\ "X-API-KEY" \in DOMAIN request.headers
               /\ request.headers["X-API-KEY"] = "api_key"
         /\ request.method = "PUT"
            => /\ request.url = unwrap(uploads[1].signed).signed_url
               /\ "X-API-KEY" \notin DOMAIN request.headers

C37_Witness ==
    /\ call = "detect_file"
    /\ Done
    /\ Len(SentRequests) = 4
    /\ SentRequests[1].method = "POST"
    /\ SentRequests[2].method = "PUT"
    /\ SentRequests[2].url = << "signed", 1 >>
    /\ DOMAIN SentRequests[2].headers = {"Content-Type", "Content-Length"}
    /\ SentRequests[2].headers["Content-Length"] = << "4" >>
    /\ SentRequests[4].method = "GET"
    /\ unwrap(outcome).ok

====
